---- MODULE Spec2Model ----
(***************************************************************************)
(* Model of autosupport_parser.py (class AutosupportParser): the text-to-  *)
(* record extraction of parse_autosupport_file and the operations that     *)
(* call it.  Report text is a string; the regular expressions of the       *)
(* source are modelled by operators that scan the string by position.      *)
(***************************************************************************)
EXTENDS Integers, Sequences, FiniteSets, TLC

(***************************************************************************)
(* String primitives (Python str / re building blocks).                    *)
(***************************************************************************)

\* s[i-1:i] of Python, 1-based: the character at position i.
Ch(s, i) == IF i < 1 \/ i > Len(s) THEN "" ELSE SubSeq(s, i, i)

\* Characters matched by \s and removed by str.strip().
Whitespace == {" ", "\t", "\n", "\r", "\f"}

UpperAlpha == "ABCDEFGHIJKLMNOPQRSTUVWXYZ"

LowerAlpha == "abcdefghijklmnopqrstuvwxyz"

\* Case folding of one character, as re.IGNORECASE / str.lower() do on ASCII.
LowerMap == [k \in 1..26 |-> Ch(LowerAlpha, k)]

UpperMap == [k \in 1..26 |-> Ch(UpperAlpha, k)]

UpperIndex == [c \in {UpperMap[k] : k \in 1..26} |->
                 CHOOSE k \in 1..26 : UpperMap[k] = c]

LowerIndex == [c \in {LowerMap[k] : k \in 1..26} |->
                 CHOOSE k \in 1..26 : LowerMap[k] = c]

LowerCh(c) == IF c \in DOMAIN UpperIndex THEN LowerMap[UpperIndex[c]] ELSE c

UpperCh(c) == IF c \in DOMAIN LowerIndex THEN UpperMap[LowerIndex[c]] ELSE c

\* str.lower() / str.upper(), by halves.
RECURSIVE Lower(_)
Lower(s) ==
    IF Len(s) = 0 THEN ""
    ELSE IF Len(s) = 1 THEN LowerCh(s)
    ELSE LET h == Len(s) \div 2
         IN  Lower(SubSeq(s, 1, h)) \o Lower(SubSeq(s, h + 1, Len(s)))

RECURSIVE Upper(_)
Upper(s) ==
    IF Len(s) = 0 THEN ""
    ELSE IF Len(s) = 1 THEN UpperCh(s)
    ELSE LET h == Len(s) \div 2
         IN  Upper(SubSeq(s, 1, h)) \o Upper(SubSeq(s, h + 1, Len(s)))

SetMin(S) == CHOOSE x \in S : \A y \in S : x <= y

SetMax(S) == CHOOSE x \in S : \A y \in S : x >= y

\* The literal p occurs in s at position i.
MatchLit(s, i, p) ==
    /\ i >= 1
    /\ i + Len(p) - 1 <= Len(s)
    /\ SubSeq(s, i, i + Len(p) - 1) = p

\* str.find(p, from): first position >= from where p occurs, 0 when none.
Find(s, p, from) ==
    LET hits == {i \in from..(Len(s) - Len(p) + 1) :
                    SubSeq(s, i, i + Len(p) - 1) = p}
    IN  IF hits = {} THEN 0 ELSE SetMin(hits)

\* `p in s`
Contains(s, p) == Find(s, p, 1) # 0

\* str.startswith
StartsWith(s, p) == MatchLit(s, 1, p)

\* First position >= i holding a non-whitespace character (Len(s)+1 if none):
\* where a greedy \s* that starts at i stops.
RECURSIVE SkipWs(_, _)
SkipWs(s, i) ==
    IF i > Len(s) \/ Ch(s, i) \notin Whitespace THEN i ELSE SkipWs(s, i + 1)

\* Last position <= i holding a non-whitespace character (0 if none).
RECURSIVE SkipWsBack(_, _)
SkipWsBack(s, i) ==
    IF i < 1 \/ Ch(s, i) \notin Whitespace THEN i ELSE SkipWsBack(s, i - 1)

\* str.strip()
Strip(s) == SubSeq(s, SkipWs(s, 1), SkipWsBack(s, Len(s)))

\* Position of the first "\n" at or after i (Len(s)+1 if none): where `.*`
\* without DOTALL, and `$` with MULTILINE, stop.
LineEnd(s, i) ==
    LET n == Find(s, "\n", i) IN IF n = 0 THEN Len(s) + 1 ELSE n

\* `^` with re.MULTILINE matches at position i.
AtLineStart(s, i) == i = 1 \/ Ch(s, i - 1) = "\n"

\* os.path.basename
Basename(path) ==
    LET slashes == {k \in 1..Len(path) : Ch(path, k) = "/"}
    IN  IF slashes = {} THEN path
        ELSE SubSeq(path, SetMax(slashes) + 1, Len(path))

\* str.split('\n')
RECURSIVE SplitLines(_)
SplitLines(s) ==
    LET n == Find(s, "\n", 1)
    IN  IF n = 0 THEN <<s>>
        ELSE <<SubSeq(s, 1, n - 1)>> \o SplitLines(SubSeq(s, n + 1, Len(s)))

\* str.split() : the maximal runs of non-whitespace characters, in order.
RECURSIVE SplitWs(_)
SplitWs(s) ==
    LET b == SkipWs(s, 1)
    IN  IF b > Len(s) THEN <<>>
        ELSE LET ws == {k \in b..Len(s) : Ch(s, k) \in Whitespace}
                 e  == IF ws = {} THEN Len(s) + 1 ELSE SetMin(ws)
             IN  <<SubSeq(s, b, e - 1)>> \o SplitWs(SubSeq(s, e, Len(s)))

\* re.sub(r'\*', '', s)
RECURSIVE RemoveStars(_)
RemoveStars(s) ==
    IF Len(s) = 0 THEN ""
    ELSE IF Len(s) = 1 THEN (IF s = "*" THEN "" ELSE s)
    ELSE LET h == Len(s) \div 2
         IN  RemoveStars(SubSeq(s, 1, h)) \o RemoveStars(SubSeq(s, h + 1, Len(s)))

\* re.search(r'A.*B', s): A, then B later on the same line.
SearchAB(s, A, B) ==
    \E i \in 1..Len(s) :
        /\ MatchLit(s, i, A)
        /\ \E j \in (i + Len(A))..LineEnd(s, i + Len(A)) : MatchLit(s, j, B)
           /\ j + Len(B) - 1 < LineEnd(s, i + Len(A))

\* re.search(r'A.*B.*C', s)
SearchABC(s, A, B, C) ==
    \E i \in 1..Len(s) :
        /\ MatchLit(s, i, A)
        /\ LET e == LineEnd(s, i + Len(A))
           IN  \E j \in (i + Len(A))..e :
                  /\ MatchLit(s, j, B)
                  /\ \E k \in (j + Len(B))..e :
                        MatchLit(s, k, C) /\ k + Len(C) - 1 < e

\* re.search(r'A\s+B', s)
SearchAWsB(s, A, B) ==
    \E i \in 1..Len(s) :
        /\ MatchLit(s, i, A)
        /\ LET j == SkipWs(s, i + Len(A))
           IN  j > i + Len(A) /\ MatchLit(s, j, B)

(***************************************************************************)
(* Class constants.                                                        *)
(***************************************************************************)

REQUIRED_FIELDS ==
    <<"GENERATED_ON", "SYSTEM_SERIALNO", "DELL_SERVICETAG", "MODEL_NO",
      "HOSTNAME", "LOCATION">>

SERVICES == <<"NFS", "CIFS", "NDMP", "CLOUD_TIER", "REPLICATION">>

Range(f) == {f[k] : k \in DOMAIN f}

(***************************************************************************)
(* Field extraction: the loop of parse_autosupport_file.                   *)
(***************************************************************************)

\* The field taken from the last matching line instead of the first.
ExtractFieldLast(content, field) ==
    LET pat  == field \o "="
        hits == {i \in 1..Len(content) :
                    AtLineStart(content, i) /\ MatchLit(content, i, pat)}
    IN  IF hits = {} THEN "N/A"
        ELSE LET i == SetMax(hits)
                 b == i + Len(pat)
             IN  Strip(SubSeq(content, b, LineEnd(content, b) - 1))

\* re.search(rf'^{field}=(.*)$', content, re.MULTILINE) followed by
\* match.group(1).strip(), or 'N/A' when there is no match.
ExtractField(content, field) ==
    LET pat  == field \o "="
        hits == {i \in 1..Len(content) :
                    AtLineStart(content, i) /\ MatchLit(content, i, pat)}
    IN  IF hits = {} THEN "N/A"
        ELSE LET i == SetMin(hits)
                 b == i + Len(pat)
             IN  Strip(SubSeq(content, b, LineEnd(content, b) - 1))

(***************************************************************************)
(* parse_services_status                                                   *)
(***************************************************************************)

\* In the operators below `low` is the content with its case folded: a
\* pattern searched with re.IGNORECASE is searched, in lower case, in `low`;
\* a pattern searched without the flag is searched in `content`.

\* The NFS branches tried in the other order.
NfsStatusDisabledFirst(content, low) ==
    IF SearchAB(low, "nfs", "disabled")
       \/ SearchABC(low, "nfs", "not", "running")
    THEN "Disabled"
    ELSE IF Contains(low, "the nfs system is currently active and running")
    THEN "Enabled"
    ELSE "Unknown"

\* The `# NFS Status` chain.
NfsStatus(content, low) ==
    IF Contains(low, "the nfs system is currently active and running")
    THEN "Enabled"
    ELSE IF SearchAB(low, "nfs", "disabled")
            \/ SearchABC(low, "nfs", "not", "running")
    THEN "Disabled"
    ELSE "Unknown"

\* The CIFS branches tried in the other order.
CifsStatusEnabledFirst(content, low) ==
    IF SearchAB(low, "cifs", "enabled") \/ SearchAB(low, "cifs", "active")
    THEN "Enabled"
    ELSE IF Contains(low, "cifs is disabled")
    THEN "Disabled"
    ELSE "Unknown"

\* The `# CIFS Status` chain: the disabled phrase is tried first.
CifsStatus(content, low) ==
    IF Contains(low, "cifs is disabled")
    THEN "Disabled"
    ELSE IF SearchAB(low, "cifs", "enabled") \/ SearchAB(low, "cifs", "active")
    THEN "Enabled"
    ELSE "Unknown"

\* The NDMP searches without re.IGNORECASE.
NdmpStatusCaseSensitive(content, low) ==
    IF Contains(content, "NDMP daemon admin_state: disabled")
    THEN "Disabled"
    ELSE IF Contains(content, "NDMP daemon admin_state: enabled")
    THEN "Enabled"
    ELSE "Unknown"

\* The `# NDMP Status` chain: the disabled phrase is tried first.
NdmpStatus(content, low) ==
    IF Contains(low, "ndmp daemon admin_state: disabled")
    THEN "Disabled"
    ELSE IF Contains(low, "ndmp daemon admin_state: enabled")
    THEN "Enabled"
    ELSE "Unknown"

\* The `# Cloud Tier Status` chain; its first two searches carry no flag.
CloudTierStatus(content, low) ==
    IF SearchAB(content, "CLOUD TIER", ":") \/ Contains(content, "Cloud Unit:")
    THEN "Enabled"
    ELSE IF SearchAB(low, "cloud", "disabled")
    THEN "Disabled"
    ELSE "Unknown"

\* The replication chain with 'Replication Status' tried before the disabled
\* patterns.
ReplicationStatusConfiguredFirst(content, low) ==
    IF SearchAWsB(low, "enabled:", "yes")
    THEN "Enabled"
    ELSE IF Contains(content, "Replication Status")
    THEN "Configured"
    ELSE IF SearchAWsB(low, "enabled:", "no")
            \/ SearchAB(low, "replication", "disabled")
    THEN "Disabled"
    ELSE "Unknown"

\* The replication chain with the disabled patterns tried before
\* 'Enabled: yes'.
ReplicationStatusDisabledFirst(content, low) ==
    IF SearchAWsB(low, "enabled:", "no")
       \/ SearchAB(low, "replication", "disabled")
    THEN "Disabled"
    ELSE IF SearchAWsB(low, "enabled:", "yes")
    THEN "Enabled"
    ELSE IF Contains(content, "Replication Status")
    THEN "Configured"
    ELSE "Unknown"

\* The `# Replication Status` chain; 'Replication Status' carries no flag.
ReplicationStatus(content, low) ==
    IF SearchAWsB(low, "enabled:", "yes")
    THEN "Enabled"
    ELSE IF SearchAWsB(low, "enabled:", "no")
            \/ SearchAB(low, "replication", "disabled")
    THEN "Disabled"
    ELSE IF Contains(content, "Replication Status")
    THEN "Configured"
    ELSE "Unknown"

parse_services_status(content) ==
    LET low == Lower(content)
    IN  [s \in Range(SERVICES) |->
            CASE s = "NFS"         -> NfsStatus(content, low)
              [] s = "CIFS"        -> CifsStatus(content, low)
              [] s = "NDMP"        -> NdmpStatus(content, low)
              [] s = "CLOUD_TIER"  -> CloudTierStatus(content, low)
              [] s = "REPLICATION" -> ReplicationStatus(content, low)]

(***************************************************************************)
(* parse_storage_tables: locating the sections.  A located section is the  *)
(* span [b, e) of group 1 of the table's pattern; ok is FALSE when         *)
(* re.search returns None.  All patterns run with re.DOTALL|re.MULTILINE.  *)
(***************************************************************************)

NoMatch == [ok |-> FALSE, b |-> 0, e |-> 0]

Span(b, e) == [ok |-> TRUE, b |-> b, e |-> e]

\* match.group(1)
Group(s, m) == SubSeq(s, m.b, m.e - 1)

\* `\s*\n` followed by the literal lit, tried at position a: the position of
\* lit, or 0.  The whitespace run after a must end in a newline.
NlThen(s, a, lit) ==
    LET w == SkipWs(s, a)
    IN  IF w > a /\ Ch(s, w - 1) = "\n" /\ MatchLit(s, w, lit) THEN w ELSE 0

\* `\s*\n\s*` followed by lit, tried at a: the whitespace run after a holds a
\* newline and is followed by lit.
NlWsThen(s, a, lit) ==
    LET w  == SkipWs(s, a)
        nl == Find(s, "\n", a)
    IN  IF nl # 0 /\ nl < w /\ MatchLit(s, w, lit) THEN w ELSE 0

\* Lookahead `\n\s*` followed by lit, at position e.
LaNlWs(s, e, lit) == Ch(s, e) = "\n" /\ MatchLit(s, SkipWs(s, e + 1), lit)

\* Length of the run of the character c that starts at i.
RECURSIVE RunLen(_, _, _)
RunLen(s, i, c) ==
    IF i > Len(s) \/ Ch(s, i) # c THEN 0 ELSE 1 + RunLen(s, i + 1, c)

\* r'<title>\s*\nResource.*?\n(.*?)(?=\n\s*<stop>|...|\Z)' : the three usage
\* patterns.  The body starts after the header line and ends before the first
\* line that starts (after blanks) with one of the stops, or at end of text.
UsageSection(s, title, stops) ==
    LET hdrEnd(i) == LET w == NlThen(s, i + Len(title), "Resource")
                     IN  IF w = 0 THEN 0 ELSE Find(s, "\n", w + 8)
        starts == {i \in 1..Len(s) : MatchLit(s, i, title) /\ hdrEnd(i) # 0}
    IN  IF starts = {} THEN NoMatch
        ELSE LET g == hdrEnd(SetMin(starts)) + 1
                 e == SetMin({k \in g..(Len(s) + 1) :
                                \/ k = Len(s) + 1
                                \/ \E lit \in stops : LaNlWs(s, k, lit)})
             IN  Span(g, e)

\* Lookahead r'\n\s*\*.*?cleaning' at position e.
LaCleaning(s, e) ==
    LET k == SkipWs(s, e + 1)
    IN  Ch(s, e) = "\n" /\ Ch(s, k) = "*" /\ Find(s, "cleaning", k + 1) # 0

\* Start of the body of r'<title>\s*\n\s*Pre-Comp.*?Total-Comp.*?\n.*?\n(.*?)'
\* tried at position i: after the header line and the line that follows it.
CompBodyStart(s, i, title) ==
    LET w  == NlWsThen(s, i + Len(title), "Pre-Comp")
        t  == IF w = 0 THEN 0 ELSE Find(s, "Total-Comp", w + 8)
        n1 == IF t = 0 THEN 0 ELSE Find(s, "\n", t + 10)
        n2 == IF n1 = 0 THEN 0 ELSE Find(s, "\n", n1 + 1)
    IN  IF MatchLit(s, i, title) /\ n2 # 0 THEN n2 + 1 ELSE 0

\* 'Active Tier Compression'
ActiveCompSection(s) ==
    LET title  == "Active Tier:"
        starts == {i \in 1..Len(s) : CompBodyStart(s, i, title) # 0}
    IN  IF starts = {} THEN NoMatch
        ELSE LET g    == CompBodyStart(s, SetMin(starts), title)
                 ends == {k \in g..Len(s) :
                            LaCleaning(s, k) \/ LaNlWs(s, k, "Cloud Tier:")}
             IN  IF ends = {} THEN NoMatch ELSE Span(g, SetMin(ends))

\* 'Currently Used Summary'
CurrentlyUsedSection(s) ==
    LET title  == "Currently Used:*"
        starts == {i \in 1..Len(s) : CompBodyStart(s, i, title) # 0}
    IN  IF starts = {} THEN NoMatch
        ELSE LET g    == CompBodyStart(s, SetMin(starts), title)
                 ends == {k \in g..Len(s) : LaNlWs(s, k, "Key:")}
             IN  IF ends = {} THEN NoMatch ELSE Span(g, SetMin(ends))

\* Positions q of a "\n" reached by `\s*\n` from a, latest first as the greedy
\* \s* tries them.
NlInWsRun(s, a) ==
    LET w == SkipWs(s, a) IN {q \in a..(w - 1) : Ch(s, q) = "\n"}

\* 'Cloud Tier Compression':
\* r'(?s)Filesys Compression.*?Cloud Tier:\s*\n.*?-{10,}\s*\n(.*?)(?=\n\s*\* Does not include)'
\* The engine settles on the first "Cloud Tier:" after the title that is
\* followed by a newline and, later, by a run of >= 10 dashes that ends a
\* line; the body starts after the last newline of the blank run that follows
\* the dashes for which the terminating note is still ahead.
CloudCompSection(s) ==
    LET f  == Find(s, "Filesys Compression", 1)
        dashEnds(from) ==
            {r \in (from + 10)..Len(s) :
                /\ Ch(s, r) # "-"
                /\ RunLen(s, r - 10, "-") = 10
                /\ NlInWsRun(s, r) # {}}
        ok(g) == \E k \in g..Len(s) : LaNlWs(s, k, "* Does not include")
        heads == IF f = 0 THEN {}
                 ELSE {c \in (f + 19)..Len(s) :
                         /\ MatchLit(s, c, "Cloud Tier:")
                         /\ NlInWsRun(s, c + 11) # {}
                         /\ dashEnds(c + 11) # {}}
    IN  IF heads = {} THEN NoMatch
        ELSE LET r    == SetMin(dashEnds(SetMin(heads) + 11))
                 good == {q + 1 : q \in {q \in NlInWsRun(s, r) : ok(q + 1)}}
             IN  IF good = {} THEN NoMatch
                 ELSE LET g == SetMax(good)
                      IN  Span(g, SetMin({k \in g..Len(s) :
                                    LaNlWs(s, k, "* Does not include")}))

\* The same body with (.*?) for group 1: dashes may occur inside the group.
MtreeCompAtAnyChar(s, L, hdr, stop) ==
    LET nL == Find(s, "\n", L + Len(hdr))
        nD == IF nL = 0 THEN 0 ELSE Find(s, "\n", nL + 1)
    IN  IF ~MatchLit(s, L, hdr) \/ nD = 0 \/ RunLen(s, nL + 1, "-") < 10
        THEN NoMatch
        ELSE LET g    == nD + 1
                 ends == {k \in g..Len(s) :
                            \/ MatchLit(s, k, stop)
                            \/ RunLen(s, k, "-") >= 10}
             IN  IF ends = {} THEN NoMatch ELSE Span(g, SetMin(ends))

\* Body of r'<hdr>[^\n]*\n(?:-{10,}[^\n]*\n)([^-]*?)(?:-{10,}|<stop>)' tried
\* with hdr at the line start L: the span of group 1, or NoMatch.
MtreeCompAt(s, L, hdr, stop) ==
    LET nL == Find(s, "\n", L + Len(hdr))
        nD == IF nL = 0 THEN 0 ELSE Find(s, "\n", nL + 1)
    IN  IF ~MatchLit(s, L, hdr) \/ nD = 0 \/ RunLen(s, nL + 1, "-") < 10
        THEN NoMatch
        ELSE LET g    == nD + 1
                 d    == Find(s, "-", g)
                 last == IF d = 0 THEN Len(s) ELSE d
                 ends == {k \in g..last :
                            \/ MatchLit(s, k, stop)
                            \/ k = d /\ RunLen(s, k, "-") >= 10}
             IN  IF ends = {} THEN NoMatch ELSE Span(g, SetMin(ends))

\* 'Mtree Active Tier Compression' / 'Mtree Cloud Tier Compression':
\* r'Mtree Show Compression[^\n]*\n(?:[^\n]*\n)*?<hdr>[^\n]*\n(?:-{10,}[^\n]*\n)([^-]*?)(?:-{10,}|<stop>)'
MtreeCompSection(s, hdr, stop) ==
    LET i  == Find(s, "Mtree Show Compression", 1)
        n0 == IF i = 0 THEN 0 ELSE Find(s, "\n", i + 22)
        Ls == IF n0 = 0 THEN {}
              ELSE {L \in (n0 + 1)..Len(s) :
                      Ch(s, L - 1) = "\n" /\ MtreeCompAt(s, L, hdr, stop).ok}
    IN  IF Ls = {} THEN NoMatch ELSE MtreeCompAt(s, SetMin(Ls), hdr, stop)

\* Lookahead (?=-{10,}|\nMtree Options|\Z) at position e.
MtreeListStop(s, e) ==
    \/ RunLen(s, e, "-") >= 10
    \/ MatchLit(s, e, "\nMtree Options")
    \/ e = Len(s) + 1

\* ((?:/data/col1/[^\n]*\n)*?) from the line start e: the end of the fewest
\* whole '/data/col1/' lines after which the lookahead holds, 0 when a line
\* that is neither a row nor a stop comes first.
RECURSIVE MtreeListEnd(_, _)
MtreeListEnd(s, e) ==
    IF MtreeListStop(s, e) THEN e
    ELSE IF MatchLit(s, e, "/data/col1/") /\ Find(s, "\n", e) # 0
    THEN MtreeListEnd(s, Find(s, "\n", e) + 1)
    ELSE 0

\* r'Mtree List\s*\n-{5,}\s*\nName[^\n]*Pre-Comp[^\n]*Status[^\n]*\n-{10,}[^\n]*\n(...)'
\* tried at position i.
MtreeListAt(s, i) ==
    LET w  == SkipWs(s, i + 10)
        r  == w + RunLen(s, w, "-")
        nm == NlThen(s, r, "Name")
        n  == IF nm = 0 THEN 0 ELSE Find(s, "\n", nm + 4)
        pc == IF n = 0 THEN 0 ELSE Find(s, "Pre-Comp", nm + 4)
        st == IF pc = 0 THEN 0 ELSE Find(s, "Status", pc + 8)
        nD == IF n = 0 THEN 0 ELSE Find(s, "\n", n + 1)
    IN  IF /\ MatchLit(s, i, "Mtree List")
           /\ w > i + 10 /\ Ch(s, w - 1) = "\n" /\ r - w >= 5
           /\ n # 0 /\ pc # 0 /\ st # 0 /\ st + 6 <= n
           /\ nD # 0 /\ RunLen(s, n + 1, "-") >= 10
           /\ MtreeListEnd(s, nD + 1) # 0
        THEN Span(nD + 1, MtreeListEnd(s, nD + 1))
        ELSE NoMatch

\* 'Mtree List'
MtreeListSection(s) ==
    LET starts == {i \in 1..Len(s) : MtreeListAt(s, i).ok}
    IN  IF starts = {} THEN NoMatch ELSE MtreeListAt(s, SetMin(starts))

TABLE_NAMES ==
    <<"Active Tier Usage", "Cloud Tier Usage", "Total Usage",
      "Active Tier Compression", "Cloud Tier Compression",
      "Currently Used Summary", "Mtree Active Tier Compression",
      "Mtree Cloud Tier Compression", "Mtree List">>

\* re.search(table_patterns[table_name], content, re.DOTALL | re.MULTILINE)
TableMatch(content, table_name) ==
    CASE table_name = "Active Tier Usage" ->
            UsageSection(content, "Active Tier:", {"* ", "Cloud Tier"})
      [] table_name = "Cloud Tier Usage" ->
            UsageSection(content, "Cloud Tier", {"* ", "Total:"})
      [] table_name = "Total Usage" ->
            UsageSection(content, "Total:", {"* "})
      [] table_name = "Active Tier Compression" -> ActiveCompSection(content)
      [] table_name = "Cloud Tier Compression" -> CloudCompSection(content)
      [] table_name = "Currently Used Summary" -> CurrentlyUsedSection(content)
      [] table_name = "Mtree Active Tier Compression" ->
            MtreeCompSection(content, "Active Tier:", "Cloud Tier:")
      [] table_name = "Mtree Cloud Tier Compression" ->
            MtreeCompSection(content, "Cloud Tier:", "Key:")
      [] table_name = "Mtree List" -> MtreeListSection(content)

(***************************************************************************)
(* parse_storage_tables: decoding the lines of a located section.          *)
(***************************************************************************)

\* re.split(r'\s{2,}', s) for a stripped s: the pieces between runs of two or
\* more whitespace characters.
RECURSIVE SplitWs2(_)
SplitWs2(s) ==
    LET gaps == {k \in 1..(Len(s) - 1) :
                    Ch(s, k) \in Whitespace /\ Ch(s, k + 1) \in Whitespace}
    IN  IF gaps = {} THEN <<s>>
        ELSE LET k == SetMin(gaps)
             IN  <<SubSeq(s, 1, k - 1)>>
                 \o SplitWs2(SubSeq(s, SkipWs(s, k), Len(s)))

\* `values[k-1] if len(values) > k-1 else 'N/A'`
ValueAt(values, k) == IF Len(values) >= k THEN values[k] ELSE "N/A"

\* `values[k-1] if values[k-1] != '-' else 'N/A'`
DashToNA(v) == IF v = "-" THEN "N/A" ELSE v

\* any(w in line for w in words)
ContainsAny(line, words) == \E w \in words : Contains(line, w)

\* A split that is made as soon as the value has a '('.
split_total_reduction_open(value) ==
    IF Contains(value, "(")
    THEN LET o    == Find(value, "(", 1)
             rest == SubSeq(value, o + 1, Len(value))
             keep == {k \in 1..Len(rest) : Ch(rest, k) # ")"}
         IN  <<SubSeq(value, 1, o - 1),
               IF keep = {} THEN "" ELSE SubSeq(rest, 1, SetMax(keep))>>
    ELSE <<value, "N/A">>

\* split_total_reduction(value): (total_val, reduction_val)
split_total_reduction(value) ==
    IF Contains(value, "(") /\ Contains(value, ")")
    THEN LET o    == Find(value, "(", 1)
             rest == SubSeq(value, o + 1, Len(value))
             o2   == Find(rest, "(", 1)
             sec  == IF o2 = 0 THEN rest ELSE SubSeq(rest, 1, o2 - 1)
             keep == {k \in 1..Len(sec) : Ch(sec, k) # ")"}
         IN  <<SubSeq(value, 1, o - 1),
               IF keep = {} THEN "" ELSE SubSeq(sec, 1, SetMax(keep))>>
    ELSE <<value, "N/A">>

NoRetention ==
    [Retention_Lock |-> "N/A", Lock_Mode |-> "N/A",
     Min_Retention_Period |-> "N/A", Max_Retention_Period |-> "N/A"]

NoReplication == [Mode |-> "N/A", Connection_Host |-> "N/A", Enabled |-> "N/A"]

\* dict.get(key, default)
Get(d, key, default) == IF key \in DOMAIN d THEN d[key] ELSE default

\* A volume-list row that is kept from two fields on.
MtreeListRowFromTwo(line, retention_locks, replication_info) ==
    LET parts == SplitWs2(Strip(RemoveStars(line)))
    IN  IF Len(parts) >= 2
        THEN LET mtree_name     == Strip(parts[1])
                 retention_info == Get(retention_locks, mtree_name, NoRetention)
                 repl_info      == Get(replication_info, mtree_name, NoReplication)
             IN  <<[Name |-> mtree_name,
                    Pre_Comp_GiB |-> Strip(parts[2]),
                    Status |-> IF Len(parts) >= 3 THEN Strip(parts[3]) ELSE "N/A",
                    Retention_Lock |-> retention_info.Retention_Lock,
                    Lock_Mode |-> retention_info.Lock_Mode,
                    Min_Retention_Period |-> retention_info.Min_Retention_Period,
                    Max_Retention_Period |-> retention_info.Max_Retention_Period,
                    Replication_Mode |-> repl_info.Mode,
                    Replication_Host |-> repl_info.Connection_Host,
                    Replication_Enabled |-> repl_info.Enabled]>>
        ELSE <<>>

\* rstrip('/')
RECURSIVE RStripSlash(_)
RStripSlash(s) ==
    IF Len(s) > 0 /\ Ch(s, Len(s)) = "/"
    THEN RStripSlash(SubSeq(s, 1, Len(s) - 1)) ELSE s

\* A volume-list row whose retention lock is looked up without the name's
\* trailing slashes.
MtreeListRowSlashless(line, retention_locks, replication_info) ==
    LET parts == SplitWs2(Strip(RemoveStars(line)))
    IN  IF Len(parts) >= 3
        THEN LET mtree_name     == Strip(parts[1])
                 retention_info == Get(retention_locks, RStripSlash(mtree_name),
                                       NoRetention)
                 repl_info      == Get(replication_info, mtree_name, NoReplication)
             IN  <<[Name |-> mtree_name,
                    Pre_Comp_GiB |-> Strip(parts[2]),
                    Status |-> Strip(parts[3]),
                    Retention_Lock |-> retention_info.Retention_Lock,
                    Lock_Mode |-> retention_info.Lock_Mode,
                    Min_Retention_Period |-> retention_info.Min_Retention_Period,
                    Max_Retention_Period |-> retention_info.Max_Retention_Period,
                    Replication_Mode |-> repl_info.Mode,
                    Replication_Host |-> repl_info.Connection_Host,
                    Replication_Enabled |-> repl_info.Enabled]>>
        ELSE <<>>

\* A volume-list row that takes its retention lock only when the volume has
\* a replication context.
MtreeListRowLinked(line, retention_locks, replication_info) ==
    LET parts == SplitWs2(Strip(RemoveStars(line)))
    IN  IF Len(parts) >= 3
        THEN LET mtree_name     == Strip(parts[1])
                 retention_info == IF mtree_name \in DOMAIN replication_info
                                   THEN Get(retention_locks, mtree_name,
                                            NoRetention)
                                   ELSE NoRetention
                 repl_info      == Get(replication_info, mtree_name, NoReplication)
             IN  <<[Name |-> mtree_name,
                    Pre_Comp_GiB |-> Strip(parts[2]),
                    Status |-> Strip(parts[3]),
                    Retention_Lock |-> retention_info.Retention_Lock,
                    Lock_Mode |-> retention_info.Lock_Mode,
                    Min_Retention_Period |-> retention_info.Min_Retention_Period,
                    Max_Retention_Period |-> retention_info.Max_Retention_Period,
                    Replication_Mode |-> repl_info.Mode,
                    Replication_Host |-> repl_info.Connection_Host,
                    Replication_Enabled |-> repl_info.Enabled]>>
        ELSE <<>>

\* The 'Mtree List' branch: the rows (none or one) a line contributes.
MtreeListRow(line, retention_locks, replication_info) ==
    LET parts == SplitWs2(Strip(RemoveStars(line)))
    IN  IF Len(parts) >= 3
        THEN LET mtree_name     == Strip(parts[1])
                 retention_info == Get(retention_locks, mtree_name, NoRetention)
                 repl_info      == Get(replication_info, mtree_name, NoReplication)
             IN  <<[Name |-> mtree_name,
                    Pre_Comp_GiB |-> Strip(parts[2]),
                    Status |-> Strip(parts[3]),
                    Retention_Lock |-> retention_info.Retention_Lock,
                    Lock_Mode |-> retention_info.Lock_Mode,
                    Min_Retention_Period |-> retention_info.Min_Retention_Period,
                    Max_Retention_Period |-> retention_info.Max_Retention_Period,
                    Replication_Mode |-> repl_info.Mode,
                    Replication_Host |-> repl_info.Connection_Host,
                    Replication_Enabled |-> repl_info.Enabled]>>
        ELSE <<>>

\* The mtree compression branch.
MtreeCompRow(line) ==
    LET clean_line == Strip(RemoveStars(line))
        \* re.match(r'^(/data/col1/[^\s]+)\s+(.*)', clean_line)
        ws         == {k \in 1..Len(clean_line) : Ch(clean_line, k) \in Whitespace}
        nameEnd    == IF ws = {} THEN 0 ELSE SetMin(ws) - 1
        matched    == StartsWith(clean_line, "/data/col1/") /\ nameEnd >= 12
        values     == SplitWs(SubSeq(clean_line, nameEnd + 1, Len(clean_line)))
    IN  IF Len(clean_line) > 35 /\ matched /\ Len(values) >= 10
        THEN LET t24 == split_total_reduction(DashToNA(values[5]))
                 t7  == split_total_reduction(DashToNA(values[10]))
             IN  <<[Mtree |-> SubSeq(clean_line, 1, nameEnd),
                    Pre_24hrs_GiB |-> DashToNA(values[1]),
                    Post_24hrs_GiB |-> DashToNA(values[2]),
                    Global_24hrs |-> DashToNA(values[3]),
                    Local_24hrs |-> DashToNA(values[4]),
                    Total_24hrs |-> t24[1],
                    Reduction_24hrs_Percent |-> t24[2],
                    Pre_7days_GiB |-> DashToNA(values[6]),
                    Post_7days_GiB |-> DashToNA(values[7]),
                    Global_7days |-> DashToNA(values[8]),
                    Local_7days |-> DashToNA(values[9]),
                    Total_7days |-> t7[1],
                    Reduction_7days_Percent |-> t7[2]]>>
        ELSE <<>>

\* Width of the Resource column of a usage row.
USAGE_RESOURCE_WIDTH == 18

\* A usage row decoded by splitting the whole line on whitespace.
UsageRowByTokens(line) ==
    LET values == SplitWs(Strip(RemoveStars(line)))
    IN  IF Len(values) >= 2
        THEN <<[Resource |-> values[1],
                Size_GiB |-> ValueAt(values, 2),
                Used_GiB |-> ValueAt(values, 3),
                Avail_GiB |-> ValueAt(values, 4),
                Use_Percent |-> ValueAt(values, 5),
                Cleanable_GiB |-> ValueAt(values, 6)]>>
        ELSE <<>>

\* A usage row that is kept only when all five value tokens are present.
UsageRowAllTokens(line) ==
    LET clean_line == Strip(RemoveStars(line))
        values     == SplitWs(SubSeq(clean_line, USAGE_RESOURCE_WIDTH + 1,
                                     Len(clean_line)))
    IN  IF Len(clean_line) > USAGE_RESOURCE_WIDTH /\ Len(values) >= 5
        THEN <<[Resource |-> Strip(SubSeq(clean_line, 1, USAGE_RESOURCE_WIDTH)),
                Size_GiB |-> values[1],
                Used_GiB |-> values[2],
                Avail_GiB |-> values[3],
                Use_Percent |-> values[4],
                Cleanable_GiB |-> values[5]]>>
        ELSE <<>>

\* The usage branch.
UsageRow(line) ==
    LET clean_line == Strip(RemoveStars(line))
        values     == SplitWs(SubSeq(clean_line, USAGE_RESOURCE_WIDTH + 1,
                                     Len(clean_line)))
    IN  IF Len(clean_line) > USAGE_RESOURCE_WIDTH /\ Len(values) >= 1
        THEN <<[Resource |-> Strip(SubSeq(clean_line, 1, USAGE_RESOURCE_WIDTH)),
                Size_GiB |-> ValueAt(values, 1),
                Used_GiB |-> ValueAt(values, 2),
                Avail_GiB |-> ValueAt(values, 3),
                Use_Percent |-> ValueAt(values, 4),
                Cleanable_GiB |-> ValueAt(values, 5)]>>
        ELSE <<>>

\* rstrip(':')
RECURSIVE RStripColon(_)
RStripColon(s) ==
    IF Len(s) > 0 /\ Ch(s, Len(s)) = ":"
    THEN RStripColon(SubSeq(s, 1, Len(s) - 1)) ELSE s

\* The compression branch.
CompressionRow(line) ==
    LET clean_line == Strip(RemoveStars(line))
        parts      == SplitWs(clean_line)
        from(k)    == SubSeq(parts, k, Len(parts))
        named      == parts[1] \in {"Currently", "Last", "Active", "Cloud",
                                    "Total", "Written:"}
        mv == IF ~named THEN <<RStripColon(parts[1]), from(2)>>
              ELSE IF parts[1] = "Currently" /\ parts[2] = "Used:"
              THEN <<"Currently Used", from(3)>>
              ELSE IF parts[1] = "Last" /\ Len(parts) > 2
              THEN <<parts[1] \o " " \o parts[2] \o " " \o parts[3], from(4)>>
              ELSE IF parts[1] \in {"Active", "Cloud"}
              THEN <<parts[1] \o " " \o parts[2], from(3)>>
              ELSE IF parts[1] = "Total" THEN <<"Total", from(2)>>
              ELSE IF parts[1] = "Written:" THEN <<"Written", from(2)>>
              ELSE <<parts[1], from(2)>>
    IN  IF /\ \/ Contains(clean_line, ":")
              \/ ContainsAny(clean_line, {"Currently Used", "Last 7 days",
                    "Last 24 hrs", "Active Tier", "Cloud Tier", "Total",
                    "Written"})
           /\ Len(parts) >= 2
           /\ Len(mv[2]) >= 2
        THEN <<[Metric |-> mv[1],
                Pre_Comp_GiB |-> ValueAt(mv[2], 1),
                Post_Comp_GiB |-> ValueAt(mv[2], 2),
                Global_Comp_Factor |-> ValueAt(mv[2], 3),
                Local_Comp_Factor |-> ValueAt(mv[2], 4),
                Total_Comp_Factor |-> ValueAt(mv[2], 5)]>>
        ELSE <<>>

\* One pass of the `for line in lines` loop: the rows the line appends.
DecodeLine(table_name, line, retention_locks, replication_info) ==
    LET is_compression_table == Contains(table_name, "Compression")
                                \/ Contains(table_name, "Currently Used")
        is_usage_table == Contains(table_name, "Usage")
        is_mtree_table == Contains(table_name, "Mtree")
        stripped       == Strip(line)
    IN  IF Contains(line, "----") \/ stripped = "" THEN <<>>
        ELSE IF ContainsAny(line, {"Resource", "Size GiB", "Pre-Comp", "Post-Comp"})
        THEN <<>>
        ELSE IF /\ is_mtree_table /\ Contains(table_name, "Mtree List")
                /\ StartsWith(stripped, "/data/col1/")
        THEN MtreeListRow(line, retention_locks, replication_info)
        ELSE IF is_mtree_table /\ StartsWith(stripped, "/data/col1/")
        THEN MtreeCompRow(line)
        ELSE IF is_usage_table /\ StartsWith(stripped, "/")
        THEN UsageRow(line)
        ELSE IF /\ is_compression_table
                /\ ~StartsWith(stripped, "(") /\ ~StartsWith(stripped, "Key:")
        THEN CompressionRow(line)
        ELSE <<>>

RECURSIVE DecodeLines(_, _, _, _)
DecodeLines(table_name, lines, retention_locks, replication_info) ==
    IF lines = <<>> THEN <<>>
    ELSE DecodeLine(table_name, Head(lines), retention_locks, replication_info)
         \o DecodeLines(table_name, Tail(lines), retention_locks, replication_info)

\* rows of one matched table: table_section.strip().split('\n'), decoded.
TableRows(table_name, table_section, retention_locks, replication_info) ==
    DecodeLines(table_name, SplitLines(Strip(table_section)),
                retention_locks, replication_info)

\* Characters read after a table when looking for its note.
NOTE_LOOKAHEAD == 500

\* The loop over note_section.split('\n'): the note lines collected.
RECURSIVE NoteLines(_, _)
NoteLines(lines, found) ==
    IF lines = <<>> THEN <<>>
    ELSE LET t == Strip(Head(lines))
         IN  IF StartsWith(t, "*") THEN <<t>> \o NoteLines(Tail(lines), TRUE)
             ELSE IF t # "" /\ found THEN <<>>
             ELSE NoteLines(Tail(lines), found)

\* ' '.join(parts)
RECURSIVE JoinSp(_)
JoinSp(parts) ==
    IF Len(parts) = 0 THEN ""
    ELSE IF Len(parts) = 1 THEN parts[1]
    ELSE parts[1] \o " " \o JoinSp(Tail(parts))

\* note_lines for a matched table: the text read starts right after the FIRST
\* occurrence of table_section in content.
TableNoteLines(content, table_section) ==
    LET note_start == Find(content, table_section, 1) + Len(table_section)
        stop       == IF note_start + NOTE_LOOKAHEAD - 1 < Len(content)
                      THEN note_start + NOTE_LOOKAHEAD - 1 ELSE Len(content)
    IN  NoteLines(SplitLines(SubSeq(content, note_start, stop)), FALSE)

(***************************************************************************)
(* parse_mtree_retention_locks                                             *)
(***************************************************************************)

\* End (first position after) of r'-+\s+-+' tried at position x, 0 if it does
\* not match there.
DashRule(s, x) ==
    LET a == RunLen(s, x, "-")
        y == SkipWs(s, x + a)
        b == RunLen(s, y, "-")
    IN  IF a >= 1 /\ y > x + a /\ b >= 1 THEN y + b ELSE 0

\* r'\n-+\s+-+(?=\s*\n|$)' at position e: the end of the match, 0 if none.
RetentionStop(s, e) ==
    LET z == IF Ch(s, e) = "\n" THEN DashRule(s, e + 1) ELSE 0
    IN  IF z # 0 /\ (z = Len(s) + 1 \/ NlInWsRun(s, z) # {}) THEN z ELSE 0

\* The retention pattern tried at position i: [ok, path, b, e, end] with
\* [b, e) the options section and end the position after the match.
RetentionAt(s, i) ==
    LET none == [ok |-> FALSE, path |-> "", b |-> 0, e |-> 0, end |-> 0]
        nb   == i + 7
        ws   == {k \in nb..Len(s) : Ch(s, k) \in Whitespace}
        ne   == IF ws = {} THEN 0 ELSE SetMin(ws)
        op   == IF ne = 0 THEN 0 ELSE NlWsThen(s, ne, "Option")
        v    == IF op = 0 THEN 0 ELSE SkipWs(s, op + 6)
        x    == IF v = 0 THEN 0 ELSE NlThen(s, v + 5, "-")
        z    == IF x = 0 THEN 0 ELSE DashRule(s, x)
        hasStop(g) == \E k \in g..Len(s) : RetentionStop(s, k) # 0
        good == IF z = 0 THEN {}
                ELSE {q + 1 : q \in {q \in NlInWsRun(s, z) : hasStop(q + 1)}}
    IN  IF /\ MatchLit(s, i, "Mtree: /data/col1/")
           /\ ne >= nb + 12
           /\ op # 0 /\ v > op + 6 /\ MatchLit(s, v, "Value")
           /\ good # {}
        THEN LET g == SetMax(good)
                 e == SetMin({k \in g..Len(s) : RetentionStop(s, k) # 0})
             IN  [ok |-> TRUE, path |-> SubSeq(s, nb, ne - 1), b |-> g,
                  e |-> e, end |-> RetentionStop(s, e)]
        ELSE none

\* re.findall(pattern, content, re.DOTALL | re.MULTILINE): the successive
\* non-overlapping matches from position `from` on, as <<path, options>>.
RECURSIVE RetentionMatches(_, _)
\* The match m and the matches that follow it.
RetentionFrom(s, m) ==
    <<<<m.path, SubSeq(s, m.b, m.e - 1)>>>> \o RetentionMatches(s, m.end)

RetentionMatches(s, from) ==
    LET starts == {i \in from..Len(s) : RetentionAt(s, i).ok}
    IN  IF starts = {} THEN <<>>
        ELSE RetentionFrom(s, RetentionAt(s, SetMin(starts)))

\* The loop over the lines of one options section, updating retention_info.
RECURSIVE RetentionOptions(_, _)
RetentionOptions(lines, info) ==
    IF lines = <<>> THEN info
    ELSE LET parts  == SplitWs2(Strip(Head(lines)))
             option == Strip(parts[1])
             value  == Strip(parts[2])
             next   ==
                IF Strip(Head(lines)) = "" \/ Len(parts) < 2 THEN info
                ELSE IF option = "Retention-lock"
                THEN [info EXCEPT !.Retention_Lock =
                        IF StartsWith(Lower(value), "enabled")
                        THEN "enabled" ELSE "disabled"]
                ELSE IF option = "Retention-lock mode"
                THEN [info EXCEPT !.Lock_Mode = value]
                ELSE IF option = "Retention-lock min-retention-period"
                THEN [info EXCEPT !.Min_Retention_Period = value]
                ELSE IF option = "Retention-lock max-retention-period"
                THEN [info EXCEPT !.Max_Retention_Period = value]
                ELSE info
         IN  RetentionOptions(Tail(lines), next)

\* dict built by assigning d[key(m)] = val(m) for the matches in order: the
\* last assignment to a key stays.
LastWins(matches, val(_)) ==
    [k \in {matches[n][1] : n \in DOMAIN matches} |->
        val(matches[SetMax({n \in DOMAIN matches : matches[n][1] = k})])]

\* A retention table whose entries start without a Retention_Lock value.
parse_mtree_retention_locks_unset(content) ==
    LET info(m) ==
            RetentionOptions(SplitLines(Strip(m[2])),
                [Retention_Lock |-> "N/A", Lock_Mode |-> "N/A",
                 Min_Retention_Period |-> "N/A", Max_Retention_Period |-> "N/A"])
    IN  LastWins(RetentionMatches(content, 1), info)

parse_mtree_retention_locks(content) ==
    LET info(m) ==
            RetentionOptions(SplitLines(Strip(m[2])),
                [Retention_Lock |-> "disabled", Lock_Mode |-> "N/A",
                 Min_Retention_Period |-> "N/A", Max_Retention_Period |-> "N/A"])
    IN  LastWins(RetentionMatches(content, 1), info)

(***************************************************************************)
(* parse_mtree_replication_info                                            *)
(***************************************************************************)

Digits == {"0", "1", "2", "3", "4", "5", "6", "7", "8", "9"}

RECURSIVE DigitRun(_, _)
DigitRun(s, i) == IF Ch(s, i) \in Digits THEN 1 + DigitRun(s, i + 1) ELSE 0

\* r'CTX:\s+\d+' at position i: the end of the match, 0 if none.
CtxAt(s, i) ==
    LET d == SkipWs(s, i + 4)
    IN  IF MatchLit(s, i, "CTX:") /\ d > i + 4 /\ DigitRun(s, d) >= 1
        THEN d + DigitRun(s, d) ELSE 0

\* Lookahead (?=CTX:\s+\d+|Replication Options|$) at e, without MULTILINE.
CtxStop(s, e) ==
    \/ CtxAt(s, e) # 0
    \/ MatchLit(s, e, "Replication Options")
    \/ e = Len(s) + 1
    \/ e = Len(s) /\ Ch(s, e) = "\n"

\* re.findall(r'CTX:\s+\d+\s*\n(.*?)(?=...)', content, re.DOTALL): the
\* successive sections, as <<section>>.
RECURSIVE CtxSections(_, _)
CtxSections(s, from) ==
    LET starts == {i \in from..Len(s) :
                     CtxAt(s, i) # 0 /\ NlInWsRun(s, CtxAt(s, i)) # {}}
    IN  IF starts = {} THEN <<>>
        ELSE LET g == SetMax(NlInWsRun(s, CtxAt(s, SetMin(starts)))) + 1
                 e == SetMin({k \in g..(Len(s) + 1) : CtxStop(s, k)})
             IN  <<SubSeq(s, g, e - 1)>> \o CtxSections(s, e)

\* line.split(':', 1)[1].strip()
AfterColon(line) == Strip(SubSeq(line, Find(line, ":", 1) + 1, Len(line)))

\* First position where p occurs in s (0 if none).
FindFirst(s, p) == Find(s, p, 1)

\* Last position where p occurs in s (0 if none).
FindLast(s, p) ==
    LET hits == {i \in 1..(Len(s) - Len(p) + 1) : MatchLit(s, i, p)}
    IN  IF hits = {} THEN 0 ELSE SetMax(hits)

\* The loop over the lines of one context: <<mtree_path, replication_data>>,
\* mtree_path "" standing for None.
RECURSIVE CtxLines(_, _)
CtxLines(lines, acc) ==
    IF lines = <<>> THEN acc
    ELSE LET line == Strip(Head(lines))
             v    == AfterColon(line)
             next ==
                IF StartsWith(line, "Mode:")
                THEN <<acc[1], [acc[2] EXCEPT !.Mode = v]>>
                ELSE IF StartsWith(line, "Destination:")
                THEN IF Contains(v, "/data/col1/")
                     THEN <<"/data/col1/"
                              \o SubSeq(v, FindLast(v, "/data/col1/") + 11, Len(v)),
                            acc[2]>>
                     ELSE acc
                ELSE IF StartsWith(line, "Connection Host:")
                THEN <<acc[1], [acc[2] EXCEPT !.Connection_Host =
                        IF Contains(v, ".")
                        THEN SubSeq(v, 1, Find(v, ".", 1) - 1) ELSE v]>>
                ELSE IF StartsWith(line, "Enabled:")
                THEN <<acc[1], [acc[2] EXCEPT !.Enabled = v]>>
                ELSE acc
         IN  CtxLines(Tail(lines), next)

RECURSIVE CtxEntries(_)
CtxEntries(sections) ==
    IF sections = <<>> THEN <<>>
    ELSE LET r == CtxLines(SplitLines(Strip(Head(sections))),
                           <<"", NoReplication>>)
         IN  (IF r[1] # "" THEN <<r>> ELSE <<>>) \o CtxEntries(Tail(sections))

\* dict in which the first assignment to a key stays.
FirstWins(matches, val(_)) ==
    [k \in {matches[n][1] : n \in DOMAIN matches} |->
        val(matches[SetMin({n \in DOMAIN matches : matches[n][1] = k})])]

\* A replication table that keeps the first context entered under a path.
parse_mtree_replication_info_first(content) ==
    LET data(m) == m[2]
    IN  FirstWins(CtxEntries(CtxSections(content, 1)), data)

parse_mtree_replication_info(content) ==
    LET data(m) == m[2]
    IN  LastWins(CtxEntries(CtxSections(content, 1)), data)

(***************************************************************************)
(* parse_storage_tables                                                    *)
(***************************************************************************)

NoteKey(table_name) == table_name \o "_note"

\* match.group(1) for the table's pattern
TableSection(content, table_name) ==
    Group(content, TableMatch(content, table_name))

\* The tables whose pattern matches: the iterations that pass `if match:`.
MatchedTables(content) ==
    {t \in Range(TABLE_NAMES) : TableMatch(content, t).ok}

\* The matched tables for which `if note_lines:` holds.
NotedTables(content, matched) ==
    {t \in matched :
        TableNoteLines(content, TableSection(content, t)) # <<>>}

\* storage_data after the loop over table_patterns.
StorageData(content, matched, noted, retention_locks, replication_info) ==
    [k \in matched \cup {NoteKey(t) : t \in noted} |->
        IF k \in matched
        THEN TableRows(k, TableSection(content, k),
                       retention_locks, replication_info)
        ELSE JoinSp(TableNoteLines(content,
                TableSection(content, CHOOSE t \in noted : NoteKey(t) = k)))]

StorageTables(content, matched, retention_locks, replication_info) ==
    StorageData(content, matched, NotedTables(content, matched),
                retention_locks, replication_info)

parse_storage_tables(content) ==
    StorageTables(content, MatchedTables(content),
                  parse_mtree_retention_locks(content),
                  parse_mtree_replication_info(content))

(***************************************************************************)
(* parse_cloud_profiles                                                    *)
(***************************************************************************)

\* `$` without re.MULTILINE at position e.
AtEnd(s, e) == e = Len(s) + 1 \/ (e = Len(s) /\ Ch(s, e) = "\n")

\* r'Cloud Profiles\s*\n-{10,}\s*\n(.*?)(?=\nCloud Unit List|\nCloud Data-Movement|$)'
\* tried at position i: the position after the dash run, 0 if the head fails.
ProfilesHead(s, i) ==
    LET w == NlThen(s, i + 14, "-")
        r == w + RunLen(s, w, "-")
    IN  IF /\ MatchLit(s, i, "Cloud Profiles") /\ w # 0 /\ r - w >= 10
           /\ NlInWsRun(s, r) # {}
        THEN r ELSE 0

ProfilesSection(s) ==
    LET starts == {i \in 1..Len(s) : ProfilesHead(s, i) # 0}
    IN  IF starts = {} THEN NoMatch
        ELSE LET g == SetMax(NlInWsRun(s, ProfilesHead(s, SetMin(starts)))) + 1
             IN  Span(g, SetMin({k \in g..(Len(s) + 1) :
                            \/ MatchLit(s, k, "\nCloud Unit List")
                            \/ MatchLit(s, k, "\nCloud Data-Movement")
                            \/ AtEnd(s, k)}))

\* re.split(r'(?=Profile name:)', section), without the pieces the loop skips:
\* the pieces that start at an occurrence of the label.
ProfileBlocks(section) ==
    LET at == {i \in 1..Len(section) : MatchLit(section, i, "Profile name:")}
        nxt(i) == LET later == {j \in at : j > i}
                  IN  IF later = {} THEN Len(section) + 1 ELSE SetMin(later)
        idx == [n \in 1..Cardinality(at) |->
                  CHOOSE i \in at : Cardinality({j \in at : j <= i}) = n]
    IN  [n \in 1..Cardinality(at) |-> SubSeq(section, idx[n], nxt(idx[n]) - 1)]

\* line.split(label)[1].strip()
AfterLabel(line, label) ==
    LET a    == Find(line, label, 1) + Len(label)
        nxt  == Find(line, label, a)
    IN  Strip(SubSeq(line, a, IF nxt = 0 THEN Len(line) ELSE nxt - 1))

\* `v if v else 'N/A'`
OrNA(v) == IF v = "" THEN "N/A" ELSE v

\* d[key] = value
Put(d, key, value) == (key :> value) @@ d

\* The loop over the lines of one profile block, filling profile_data.
RECURSIVE ProfileLines(_, _)
ProfileLines(lines, profile_data) ==
    IF lines = <<>> THEN profile_data
    ELSE LET line == Strip(Head(lines))
             next ==
                IF line = "" THEN profile_data
                ELSE IF StartsWith(line, "Profile name:")
                THEN Put(profile_data, "Profile_Name", AfterLabel(line, "Profile name:"))
                ELSE IF StartsWith(line, "Provider:")
                THEN Put(profile_data, "Provider", AfterLabel(line, "Provider:"))
                ELSE IF StartsWith(line, "Endpoint:")
                THEN Put(profile_data, "Endpoint", AfterLabel(line, "Endpoint:"))
                ELSE IF StartsWith(line, "Version:")
                THEN Put(profile_data, "Version", AfterLabel(line, "Version:"))
                ELSE IF StartsWith(line, "Proxy host:")
                THEN Put(profile_data, "Proxy_Host", OrNA(AfterLabel(line, "Proxy host:")))
                ELSE IF StartsWith(line, "Proxy port:")
                THEN Put(profile_data, "Proxy_Port", OrNA(AfterLabel(line, "Proxy port:")))
                ELSE IF StartsWith(line, "Proxy username:")
                THEN Put(profile_data, "Proxy_Username",
                         OrNA(AfterLabel(line, "Proxy username:")))
                ELSE profile_data
         IN  ProfileLines(Tail(lines), next)

\* The defaults for the optional fields.
ProfileDefaults(profile_data) ==
    profile_data @@ [f \in {"Version", "Proxy_Host", "Proxy_Port", "Proxy_Username"}
                        |-> "N/A"]

RECURSIVE ProfileRows(_)
ProfileRows(blocks) ==
    IF blocks = <<>> THEN <<>>
    ELSE LET d == ProfileDefaults(ProfileLines(SplitLines(Head(blocks)), <<>>))
         IN  (IF "Profile_Name" \in DOMAIN d /\ "Provider" \in DOMAIN d
              THEN <<d>> ELSE <<>>) \o ProfileRows(Tail(blocks))

parse_cloud_profiles(content) ==
    LET m == ProfilesSection(content)
    IN  IF m.ok THEN ProfileRows(ProfileBlocks(Group(content, m))) ELSE <<>>

(***************************************************************************)
(* parse_cloud_data_movement                                               *)
(***************************************************************************)

\* Fixed-width layout of a data-movement line.
MOVEMENT_MIN_LEN == 60

MOVEMENT_MTREE_WIDTH == 28

MOVEMENT_TARGET_WIDTH == 26

MOVEMENT_POLICY_WIDTH == 13

\* s[:n]
Left(s, n) == SubSeq(s, 1, IF n < Len(s) THEN n ELSE Len(s))

\* s[n:]
From(s, n) == SubSeq(s, n + 1, Len(s))

\* r'Cloud Data-Movement Configuration\s*\n-{30,}(.*?)(?=\nData-movement is scheduled)'
MovementSection(s) ==
    LET title == "Cloud Data-Movement Configuration"
        body(i) == LET w == NlThen(s, i + Len(title), "-")
                   IN  IF MatchLit(s, i, title) /\ w # 0 /\ RunLen(s, w, "-") >= 30
                       THEN w + RunLen(s, w, "-") ELSE 0
        starts == {i \in 1..Len(s) : body(i) # 0}
    IN  IF starts = {} THEN NoMatch
        ELSE LET g    == body(SetMin(starts))
                 ends == {k \in g..Len(s) :
                            MatchLit(s, k, "\nData-movement is scheduled")}
             IN  IF ends = {} THEN NoMatch ELSE Span(g, SetMin(ends))

\* A pass that keeps a row whatever its fields hold.
MovementRowUnfilled(raw) ==
    LET line      == Strip(raw)
        mtree     == Strip(Left(line, MOVEMENT_MTREE_WIDTH))
        rem1      == Strip(From(line, MOVEMENT_MTREE_WIDTH))
        target    == Strip(Left(rem1, MOVEMENT_TARGET_WIDTH))
        rem2      == Strip(From(rem1, MOVEMENT_TARGET_WIDTH))
        policy    == Strip(Left(rem2, MOVEMENT_POLICY_WIDTH))
        value     == Strip(From(rem2, MOVEMENT_POLICY_WIDTH))
    IN  IF /\ line # "" /\ ~StartsWith(line, "-") /\ ~StartsWith(line, "Mtree")
           /\ ~Contains(line, "Target(Tier/Unit Name)")
           /\ Len(line) > MOVEMENT_MIN_LEN /\ StartsWith(line, "/data/col1/")
        THEN <<[Mtree |-> mtree, Target |-> target, Policy |-> policy,
                Value |-> value]>>
        ELSE <<>>

\* One pass of the loop over the lines of the movement table.
MovementRow(raw) ==
    LET line      == Strip(raw)
        mtree     == Strip(Left(line, MOVEMENT_MTREE_WIDTH))
        rem1      == Strip(From(line, MOVEMENT_MTREE_WIDTH))
        target    == Strip(Left(rem1, MOVEMENT_TARGET_WIDTH))
        rem2      == Strip(From(rem1, MOVEMENT_TARGET_WIDTH))
        policy    == Strip(Left(rem2, MOVEMENT_POLICY_WIDTH))
        value     == Strip(From(rem2, MOVEMENT_POLICY_WIDTH))
    IN  IF /\ line # "" /\ ~StartsWith(line, "-") /\ ~StartsWith(line, "Mtree")
           /\ ~Contains(line, "Target(Tier/Unit Name)")
           /\ Len(line) > MOVEMENT_MIN_LEN /\ StartsWith(line, "/data/col1/")
           /\ mtree # "" /\ target # "" /\ policy # "" /\ value # ""
        THEN <<[Mtree |-> mtree, Target |-> target, Policy |-> policy,
                Value |-> value]>>
        ELSE <<>>

RECURSIVE MovementRows(_)
MovementRows(lines) ==
    IF lines = <<>> THEN <<>>
    ELSE MovementRow(Head(lines)) \o MovementRows(Tail(lines))

parse_cloud_data_movement(content) ==
    LET m == MovementSection(content)
    IN  IF m.ok THEN MovementRows(SplitLines(Strip(Group(content, m)))) ELSE <<>>

(***************************************************************************)
(* Report texts the operations are run on: every concatenation of at most  *)
(* MaxFrags fragments of one group.                                        *)
(***************************************************************************)

MaxFrags == 3

FieldFrags ==
    {"HOSTNAME=  host1.example.com \n", "HOSTNAME=host2\n", " LOCATION=lab\n",
     "LOCATION=dc1"}

NfsFrags ==
    {"The NFS system is currently active and running\n", "NFS is disabled\n",
     "nfs server not running\n"}

CifsFrags ==
    {"CIFS is disabled: foo is enabled\n", "CIFS is enabled\n", "cifs active\n"}

NdmpFrags ==
    {"NDMP daemon admin_state: enabled\n", "NDMP daemon admin_state: disabled\n"}

ReplFrags == {"Enabled: yes\n", "Enabled: no\n", "Replication Status\n"}

CloudFrags ==
    {"Cloud Unit: u1\n",
     "cloud tier is disabled\n",
     "Cloud Profiles\n----------\nProfile name: p1\nProvider: aws\n",
     "Cloud Data-Movement Configuration\n------------------------------\n/data/col1/m1                Cloud/unit1                age-threshold 14 days\nData-movement is scheduled\n"}

UsageFrags ==
    {"Active Tier:\nResource Size\n/data: post-comp     100 50 50 50% 10\n",
     " * Estimated\n",
     "Cloud Tier\nResource Size\n/data: post-comp     70 7 63 10% 0\n",
     "Total:\nResource Size\n/data: post-comp     170 57 113 33% 10\n"}

FragGroups ==
    {FieldFrags, NfsFrags, CifsFrags, NdmpFrags, ReplFrags, CloudFrags,
     UsageFrags}

RECURSIVE Texts(_, _)
Texts(frags, n) ==
    IF n = 0 THEN {""}
    ELSE LET prev == Texts(frags, n - 1)
         IN  prev \cup {t \o f : t \in prev, f \in frags}

DocPool == UNION {Texts(g, MaxFrags) : g \in FragGroups}

(***************************************************************************)
(* The parser object and its callers.                                      *)
(***************************************************************************)

Threads == {1, 2}

\* getattr(self, '_current_tar', 'N/A') when the attribute was never set
NoAttr == "<no attribute>"

TarPaths == {"/in/a.tar.gz"}

EmlPaths == {"/in/m.eml"}

DirectPaths == {"/in/autosupport"}

\* Where extract_tar_gz / extract_autosupport_from_eml leave the document.
TarMember == "/tmp/t/ddr/var/support/autosupport"

EmlMember(eml_path) ==
    LET base == Basename(eml_path)
    IN  "/tmp/t/autosupport_" \o SubSeq(base, 1, Len(base) - 4)

NoFile == [path |-> "", text |-> "", readable |-> FALSE]

\* A file as open() finds it: readable with some text of pool, or not
\* readable.
FilesFrom(path, pool) ==
    {[path |-> path, text |-> t, readable |-> TRUE] : t \in pool}
    \cup {[path |-> path, text |-> "", readable |-> FALSE]}

FilesAt(path) == FilesFrom(path, DocPool)

VARIABLES
    current_tar,  \* self._current_tar, or NoAttr
    op,           \* per thread: the public operation in progress
    pc,           \* per thread: position inside parse_autosupport_file
    file,         \* per thread: the file at file_path
    content,      \* per thread: local `content`
    data,         \* per thread: local `data`
    raised,       \* per thread: the step whose exception was caught, or NoException
    rec,          \* per thread: value returned by parse_autosupport_file
    results,      \* per thread: list built by process_single_tar / _eml
    arg,          \* per thread: the path the public operation was called on
    batch,        \* per thread: the locals of process_directory
    seen          \* per thread: what a process_directory call has met so far

vars == <<current_tar, op, pc, file, content, data, raised, rec, results,
          arg, batch, seen>>

\* `{}`
EmptyDict == <<>>

NoException == "none"

\* No process_directory call in progress.
NoBatch == [active |-> FALSE, tar_files |-> <<>>, eml_files |-> <<>>,
            results |-> <<>>]

\* names: what os.listdir gave; listed: archives and mails among them;
\* started: those handed to process_single_tar / process_single_eml;
\* extracted: documents the extraction gave; degraded: documents whose parse
\* caught an exception.
NothingSeen == [names |-> <<>>, listed |-> 0, started |-> 0, extracted |-> 0,
                degraded |-> 0]

Init ==
    /\ current_tar = NoAttr
    /\ op = [t \in Threads |-> "none"]
    /\ pc = [t \in Threads |-> "idle"]
    /\ file = [t \in Threads |-> NoFile]
    /\ content = [t \in Threads |-> ""]
    /\ data = [t \in Threads |-> EmptyDict]
    /\ raised = [t \in Threads |-> NoException]
    /\ rec = [t \in Threads |-> EmptyDict]
    /\ results = [t \in Threads |-> <<>>]
    /\ arg = [t \in Threads |-> ""]
    /\ batch = [t \in Threads |-> NoBatch]
    /\ seen = [t \in Threads |-> NothingSeen]

\* Entry of parse_autosupport_file(f.path): `data = {}`.
EnterParse(t, f) ==
    /\ pc' = [pc EXCEPT ![t] = "read"]
    /\ file' = [file EXCEPT ![t] = f]
    /\ content' = [content EXCEPT ![t] = ""]
    /\ data' = [data EXCEPT ![t] = EmptyDict]
    /\ raised' = [raised EXCEPT ![t] = NoException]
    /\ rec' = [rec EXCEPT ![t] = EmptyDict]

\* A caller invokes parse_autosupport_file directly on one of paths.
CallParseOn(t, paths, pool) ==
    /\ pc[t] = "idle"
    /\ \E path \in paths :
         /\ arg' = [arg EXCEPT ![t] = path]
         /\ \E f \in FilesFrom(path, pool) : EnterParse(t, f)
    /\ op' = [op EXCEPT ![t] = "parse"]
    /\ results' = [results EXCEPT ![t] = <<>>]
    /\ UNCHANGED <<current_tar, batch, seen>>

CallParse(t) == CallParseOn(t, DirectPaths, DocPool)

\* A process_single_tar that sets the current archive only while none is
\* set.
StartTarSetOnce(t, tar_path, pool) ==
    /\ current_tar' = IF current_tar = NoAttr THEN Basename(tar_path)
                      ELSE current_tar
    /\ arg' = [arg EXCEPT ![t] = tar_path]
    /\ results' = [results EXCEPT ![t] = <<>>]
    /\ \/ /\ op' = [op EXCEPT ![t] = "tar"]
          /\ \E f \in FilesFrom(TarMember, pool) : EnterParse(t, f)
       \/ /\ op' = [op EXCEPT ![t] = "tar"]
          /\ pc' = [pc EXCEPT ![t] = "done"]
          /\ UNCHANGED <<file, content, data, raised, rec>>

\* process_single_tar(tar_path) up to the first parse (or to its return when
\* extract_tar_gz found nothing or failed).
StartTar(t, tar_path, pool) ==
    /\ current_tar' = Basename(tar_path)
    /\ arg' = [arg EXCEPT ![t] = tar_path]
    /\ results' = [results EXCEPT ![t] = <<>>]
    /\ \/ /\ op' = [op EXCEPT ![t] = "tar"]
          /\ \E f \in FilesFrom(TarMember, pool) : EnterParse(t, f)
       \/ /\ op' = [op EXCEPT ![t] = "tar"]
          /\ pc' = [pc EXCEPT ![t] = "done"]
          /\ UNCHANGED <<file, content, data, raised, rec>>

ProcessSingleTarOn(t, tar_paths, pool) ==
    /\ pc[t] = "idle"
    /\ \E tar_path \in tar_paths : StartTar(t, tar_path, pool)
    /\ UNCHANGED <<batch, seen>>

ProcessSingleTar(t) == ProcessSingleTarOn(t, TarPaths, DocPool)

\* process_single_eml(eml_path), likewise.
StartEml(t, eml_path, pool) ==
    /\ current_tar' = Basename(eml_path)
    /\ arg' = [arg EXCEPT ![t] = eml_path]
    /\ results' = [results EXCEPT ![t] = <<>>]
    /\ \/ /\ op' = [op EXCEPT ![t] = "eml"]
          /\ \E f \in FilesFrom(EmlMember(eml_path), pool) : EnterParse(t, f)
       \/ /\ op' = [op EXCEPT ![t] = "eml"]
          /\ pc' = [pc EXCEPT ![t] = "done"]
          /\ UNCHANGED <<file, content, data, raised, rec>>

ProcessSingleEmlOn(t, eml_paths, pool) ==
    /\ pc[t] = "idle"
    /\ \E eml_path \in eml_paths : StartEml(t, eml_path, pool)
    /\ UNCHANGED <<batch, seen>>

ProcessSingleEml(t) == ProcessSingleEmlOn(t, EmlPaths, DocPool)

\* `with open(file_path, ...) as f: content = f.read()`
ReadFile(t) ==
    /\ pc[t] = "read"
    /\ file[t].readable
    /\ content' = [content EXCEPT ![t] = file[t].text]
    /\ pc' = [pc EXCEPT ![t] = "fields"]
    /\ UNCHANGED <<current_tar, op, file, data, raised, rec, results,
                   arg, batch, seen>>

\* open() or read() raises.
ReadFails(t) ==
    /\ pc[t] = "read"
    /\ ~file[t].readable
    /\ pc' = [pc EXCEPT ![t] = "except"]
    /\ raised' = [raised EXCEPT ![t] = pc[t]]
    /\ UNCHANGED <<current_tar, op, file, content, data, rec, results,
                   arg, batch, seen>>

\* `for field in self.REQUIRED_FIELDS: ...`
ExtractFields(t) ==
    /\ pc[t] = "fields"
    /\ data' = [data EXCEPT ![t] =
            [f \in Range(REQUIRED_FIELDS) |-> ExtractField(content[t], f)] @@ @]
    /\ pc' = [pc EXCEPT ![t] = "services"]
    /\ UNCHANGED <<current_tar, op, file, content, raised, rec, results,
                   arg, batch, seen>>

\* `services_status = self.parse_services_status(content)` and the copy loop
ParseServices(t) ==
    /\ pc[t] = "services"
    /\ data' = [data EXCEPT ![t] = parse_services_status(content[t]) @@ @]
    /\ pc' = [pc EXCEPT ![t] = "tables"]
    /\ UNCHANGED <<current_tar, op, file, content, raised, rec, results,
                   arg, batch, seen>>

\* `data['STORAGE_TABLES'] = self.parse_storage_tables(content)`
ParseTables(t) ==
    /\ pc[t] = "tables"
    /\ data' = [data EXCEPT ![t] =
            Put(@, "STORAGE_TABLES", parse_storage_tables(content[t]))]
    /\ pc' = [pc EXCEPT ![t] = "cloud"]
    /\ UNCHANGED <<current_tar, op, file, content, raised, rec, results,
                   arg, batch, seen>>

\* `if data.get('CLOUD_TIER') == 'Enabled': ... else: ...`
ParseCloud(t) ==
    /\ pc[t] = "cloud"
    /\ data' = [data EXCEPT ![t] =
            IF Get(@, "CLOUD_TIER", "") = "Enabled"
            THEN Put(Put(@, "CLOUD_PROFILES", parse_cloud_profiles(content[t])),
                     "CLOUD_DATA_MOVEMENT", parse_cloud_data_movement(content[t]))
            ELSE Put(Put(@, "CLOUD_PROFILES", <<>>), "CLOUD_DATA_MOVEMENT", <<>>)]
    /\ pc' = [pc EXCEPT ![t] = "source"]
    /\ UNCHANGED <<current_tar, op, file, content, raised, rec, results,
                   arg, batch, seen>>

\* The two provenance assignments that end the try block.
AddSource(t) ==
    /\ pc[t] = "source"
    /\ data' = [data EXCEPT ![t] =
            Put(Put(@, "SOURCE_FILE", Basename(file[t].path)),
                "SOURCE_TAR", IF current_tar = NoAttr THEN "N/A" ELSE current_tar)]
    /\ pc' = [pc EXCEPT ![t] = "return"]
    /\ UNCHANGED <<current_tar, op, file, content, raised, rec, results,
                   arg, batch, seen>>

\* An exception raised by a statement of the try block after the read.
Raise(t) ==
    /\ pc[t] \in {"fields", "services", "tables", "cloud", "source"}
    /\ pc' = [pc EXCEPT ![t] = "except"]
    /\ raised' = [raised EXCEPT ![t] = pc[t]]
    /\ UNCHANGED <<current_tar, op, file, content, data, rec, results,
                   arg, batch, seen>>

\* An except clause that fills the defaults into the dict built so far.
DegradedRecordKeep(partial, path, tar) ==
    partial
        @@ Put(Put(Put(
            [s \in Range(SERVICES) |-> "Unknown"]
                @@ [f \in Range(REQUIRED_FIELDS) |-> "N/A"],
            "STORAGE_TABLES", EmptyDict),
            "SOURCE_FILE", Basename(path)),
            "SOURCE_TAR", IF tar = NoAttr THEN "N/A" ELSE tar)

\* The body of `except Exception`: `data` is rebound to a new dict, so nothing
\* of the partly built dict `partial` survives.
DegradedRecord(partial, path, tar) ==
    Put(Put(Put(
        [s \in Range(SERVICES) |-> "Unknown"]
            @@ [f \in Range(REQUIRED_FIELDS) |-> "N/A"],
        "STORAGE_TABLES", EmptyDict),
        "SOURCE_FILE", Basename(path)),
        "SOURCE_TAR", IF tar = NoAttr THEN "N/A" ELSE tar)

HandleException(t) ==
    /\ pc[t] = "except"
    /\ data' = [data EXCEPT ![t] = DegradedRecord(@, file[t].path, current_tar)]
    /\ pc' = [pc EXCEPT ![t] = "return"]
    /\ seen' = [seen EXCEPT ![t].degraded = IF batch[t].active THEN @ + 1 ELSE @]
    /\ UNCHANGED <<current_tar, op, file, content, raised, rec, results,
                   arg, batch>>

\* `return data`, and what the caller does with it: process_single_tar/_eml
\* append it to results and, the file list being exhausted, return results.
\* The locals of the call are gone afterwards.
Return(t) ==
    /\ pc[t] = "return"
    /\ rec' = [rec EXCEPT ![t] = data[t]]
    /\ results' = [results EXCEPT ![t] =
            IF op[t] \in {"tar", "eml"} THEN Append(@, data[t]) ELSE @]
    /\ pc' = [pc EXCEPT ![t] = "done"]
    /\ file' = [file EXCEPT ![t] = NoFile]
    /\ content' = [content EXCEPT ![t] = ""]
    /\ data' = [data EXCEPT ![t] = EmptyDict]
    /\ UNCHANGED <<current_tar, op, raised,
                   arg, batch, seen>>

\* The caller drops the returned value; the thread is free for the next call.
Discard(t) ==
    /\ pc[t] = "done"
    /\ ~batch[t].active
    /\ pc' = [pc EXCEPT ![t] = "idle"]
    /\ op' = [op EXCEPT ![t] = "none"]
    /\ rec' = [rec EXCEPT ![t] = EmptyDict]
    /\ results' = [results EXCEPT ![t] = <<>>]
    /\ raised' = [raised EXCEPT ![t] = NoException]
    /\ content' = [content EXCEPT ![t] = ""]
    /\ arg' = [arg EXCEPT ![t] = ""]
    /\ seen' = [seen EXCEPT ![t] = NothingSeen]
    /\ UNCHANGED <<current_tar, file, data, batch>>

\* The sequential use of one parser object: a single caller.
Callers == {1}

Next ==
    \E t \in Callers :
        \/ CallParse(t)
        \/ ProcessSingleTar(t)
        \/ ProcessSingleEml(t)
        \/ ReadFile(t)
        \/ ReadFails(t)
        \/ ExtractFields(t)
        \/ ParseServices(t)
        \/ ParseTables(t)
        \/ ParseCloud(t)
        \/ AddSource(t)
        \/ Raise(t)
        \/ HandleException(t)
        \/ Return(t)
        \/ Discard(t)

Spec == Init /\ [][Next]_vars

TypeOK ==
    /\ pc \in [Threads -> {"idle", "read", "fields", "services", "tables",
                            "cloud", "source", "except", "return", "done",
                            "loop"}]
    /\ op \in [Threads -> {"none", "parse", "tar", "eml", "dir",
                            "storage_tables", "cloud_movement",
                            "cloud_profiles", "services_status"}]

(***************************************************************************)
(* Properties of the record assembler and of the service classifier.      *)
(***************************************************************************)

\* parse_autosupport_file is at `return data` without having caught anything
Completed(t) == pc[t] = "return" /\ raised[t] = NoException

\* The value the field contract gives: the lines of the text taken in order,
\* the first one that begins with NAME=, its remainder trimmed.
FirstLineValue(text, name) ==
    LET lines == SplitLines(text)
        hits  == {k \in 1..Len(lines) : StartsWith(lines[k], name \o "=")}
    IN  IF hits = {} THEN "N/A"
        ELSE LET l == lines[SetMin(hits)]
             IN  Strip(SubSeq(l, Len(name) + 2, Len(l)))

\* C1: whenever parse_autosupport_file completes its try block, each of the
\* six allowlisted fields of the record holds the trimmed remainder of the
\* FIRST line of the text that starts with NAME=, and 'N/A' when the text has
\* no such line; a later NAME= line never replaces the first.
C1_FirstFieldLineWins ==
    \A t \in Threads :
        Completed(t) =>
            \A f \in Range(REQUIRED_FIELDS) :
                /\ f \in DOMAIN data[t]
                /\ data[t][f] = FirstLineValue(content[t], f)

\* A completed parse of a text with two different HOSTNAME= lines, the first
\* one padded with blanks, together with a field that has no line at all.
C1_Witness ==
    \E t \in Threads :
        /\ Completed(t)
        /\ StartsWith(content[t], "HOSTNAME=  host1.example.com \nHOSTNAME=host2\n")
        /\ data[t]["HOSTNAME"] = "host1.example.com"
        /\ data[t]["MODEL_NO"] = "N/A"

\* The top-level keys of a record.
RecordKeys ==
    Range(REQUIRED_FIELDS) \cup Range(SERVICES)
        \cup {"STORAGE_TABLES", "CLOUD_PROFILES", "CLOUD_DATA_MOVEMENT",
              "SOURCE_FILE", "SOURCE_TAR"}

\* C2: every record parse_autosupport_file returns, on the normal and on the
\* exception path alike, has every top-level key (six fields, five services,
\* STORAGE_TABLES, CLOUD_PROFILES, CLOUD_DATA_MOVEMENT, SOURCE_FILE,
\* SOURCE_TAR).
C2_AllKeysPresent ==
    \A t \in Threads :
        pc[t] = "return" => RecordKeys \subseteq DOMAIN data[t]

\* Every scalar field 'N/A', every service 'Unknown', no table.
IsDegraded(r) ==
    /\ \A f \in Range(REQUIRED_FIELDS) : f \in DOMAIN r /\ r[f] = "N/A"
    /\ \A s \in Range(SERVICES) : s \in DOMAIN r /\ r[s] = "Unknown"
    /\ "STORAGE_TABLES" \in DOMAIN r
    /\ r["STORAGE_TABLES"] = EmptyDict

\* C3: an exception raised at any step of the try block (the read, the field
\* loop, the service classification, the table parsing, the cloud parsing)
\* stays inside parse_autosupport_file, and the record the call returns has
\* every scalar field 'N/A', every service 'Unknown' and an empty table
\* collection, whatever had been extracted before the exception.
C3_FailureGivesDegradedRecord ==
    \A t \in Threads :
        raised[t] # NoException =>
            /\ pc[t] \in {"except", "return", "done"}
            /\ pc[t] = "return" => IsDegraded(data[t])
            /\ pc[t] = "done" => IsDegraded(rec[t])

\* The cloud step failed on a text that has a HOSTNAME= line: the fields and
\* the services had been extracted, and the record about to be returned
\* holds none of it.
C3_Witness ==
    \E t \in Threads :
        /\ pc[t] = "return"
        /\ raised[t] = "cloud"
        /\ FirstLineValue(content[t], "HOSTNAME") = "host2"
        /\ data[t]["HOSTNAME"] = "N/A"
        /\ data[t]["NFS"] = "Unknown"

\* A pattern searched with re.IGNORECASE: both sides folded.
IContains(text, p) == Contains(Lower(text), Lower(p))

ISearchAB(text, A, B) == SearchAB(Lower(text), Lower(A), Lower(B))

\* Each service's phrase predicates in the order of the if/elif chain, as
\* pairs <<the predicate matches the text, the status attached to it>>.
ServicePredicates(text) ==
    [s \in Range(SERVICES) |->
        CASE s = "NFS" ->
                << <<IContains(text, "The NFS system is currently active and running"),
                     "Enabled">>,
                   <<ISearchAB(text, "NFS", "disabled")
                        \/ SearchABC(Lower(text), "nfs", "not", "running"),
                     "Disabled">> >>
          [] s = "CIFS" ->
                << <<IContains(text, "CIFS is disabled"), "Disabled">>,
                   <<ISearchAB(text, "CIFS", "enabled")
                        \/ ISearchAB(text, "CIFS", "active"),
                     "Enabled">> >>
          [] s = "NDMP" ->
                << <<IContains(text, "NDMP daemon admin_state: disabled"),
                     "Disabled">>,
                   <<IContains(text, "NDMP daemon admin_state: enabled"),
                     "Enabled">> >>
          [] s = "CLOUD_TIER" ->
                << <<SearchAB(text, "CLOUD TIER", ":")
                        \/ Contains(text, "Cloud Unit:"),
                     "Enabled">>,
                   <<ISearchAB(text, "cloud", "disabled"), "Disabled">> >>
          [] s = "REPLICATION" ->
                << <<SearchAWsB(Lower(text), "enabled:", "yes"), "Enabled">>,
                   <<SearchAWsB(Lower(text), "enabled:", "no")
                        \/ ISearchAB(text, "replication", "disabled"),
                     "Disabled">>,
                   <<Contains(text, "Replication Status"), "Configured">> >>]

\* The status attached to the first predicate of the list that matches.
FirstMatchStatus(preds) ==
    LET hits == {k \in 1..Len(preds) : preds[k][1]}
    IN  IF hits = {} THEN "Unknown" ELSE preds[SetMin(hits)][2]

\* C4: for each of the five services the status a completed parse records
\* is the one attached to the first predicate, in the service's fixed order,
\* that matches the text, and 'Unknown' when none of its predicates matches.
C4_FirstMatchingPredicate ==
    \A t \in Threads :
        Completed(t) =>
            \A s \in Range(SERVICES) :
                data[t][s] = FirstMatchStatus(ServicePredicates(content[t])[s])

\* A text on which the first and the second NFS predicate both match, and a
\* service none of whose predicates matches.
C4_Witness ==
    \E t \in Threads :
        /\ Completed(t)
        /\ ServicePredicates(content[t])["NFS"][1][1]
        /\ ServicePredicates(content[t])["NFS"][2][1]
        /\ data[t]["NFS"] = "Enabled"
        /\ \A k \in 1..2 : ~ServicePredicates(content[t])["NDMP"][k][1]
        /\ data[t]["NDMP"] = "Unknown"

\* C5: for CIFS and NDMP, whose disabled phrase is checked first, a text that
\* contains the disabled phrase and also satisfies the service's enabled
\* phrase, wherever the two stand, is classified 'Disabled'.
C5_DisabledPhraseWins ==
    \A t \in Threads :
        Completed(t) =>
            LET text == content[t]
            IN  /\ ( /\ IContains(text, "CIFS is disabled")
                     /\ \/ ISearchAB(text, "CIFS", "enabled")
                        \/ ISearchAB(text, "CIFS", "active") )
                        => data[t]["CIFS"] = "Disabled"
                /\ ( /\ IContains(text, "NDMP daemon admin_state: disabled")
                     /\ IContains(text, "NDMP daemon admin_state: enabled") )
                        => data[t]["NDMP"] = "Disabled"

\* The enabled phrase comes first in the text, the disabled phrase after it.
C5_Witness ==
    \E t \in Threads :
        /\ Completed(t)
        /\ StartsWith(content[t], "CIFS is enabled\nCIFS is disabled: foo is enabled\n")
        /\ data[t]["CIFS"] = "Disabled"

Statuses == {"Enabled", "Disabled", "Configured", "Unknown"}

\* C6: every service status of every record about to be returned is one of
\* Enabled, Disabled, Configured, Unknown; only REPLICATION is ever
\* 'Configured', and only on a text that contains 'Replication Status' and
\* matches neither the replication enabled nor the replication disabled
\* predicate.
C6_StatusValues ==
    \A t \in Threads :
        pc[t] = "return" =>
            \A s \in Range(SERVICES) :
                /\ s \in DOMAIN data[t]
                /\ data[t][s] \in Statuses
                /\ data[t][s] = "Configured" =>
                      /\ s = "REPLICATION"
                      /\ Contains(content[t], "Replication Status")
                      /\ ~SearchAWsB(Lower(content[t]), "enabled:", "yes")
                      /\ ~SearchAWsB(Lower(content[t]), "enabled:", "no")
                      /\ ~ISearchAB(content[t], "replication", "disabled")

C6_Witness ==
    \E t \in Threads :
        /\ Completed(t)
        /\ Contains(content[t], "Replication Status")
        /\ data[t]["REPLICATION"] = "Configured"

\* The texts that differ from `text` only in letter case, as far as checked.
CaseVariants(text) == {Lower(text), Upper(text)}

\* C7 as stated: for every service, changing only the letter case of the text
\* never changes the service's status.
C7_AllServicesIgnoreCase ==
    \A t \in Threads :
        Completed(t) =>
            \A v \in CaseVariants(content[t]) :
                \A s \in Range(SERVICES) :
                    parse_services_status(v)[s] = data[t][s]

\* C7 as the code has it: changing only the letter case of the text never
\* changes the status of NFS, CIFS or NDMP, and never changes whether
\* REPLICATION is 'Enabled' or is 'Disabled'; the CLOUD_TIER enabled patterns
\* and 'Replication Status' are matched case-sensitively.
C7_CaseInsensitiveServices ==
    \A t \in Threads :
        Completed(t) =>
            \A v \in CaseVariants(content[t]) :
                LET st == parse_services_status(v)
                IN  /\ \A s \in {"NFS", "CIFS", "NDMP"} : st[s] = data[t][s]
                    /\ \A x \in {"Enabled", "Disabled"} :
                          st["REPLICATION"] = x <=> data[t]["REPLICATION"] = x

\* A mixed-case text whose two case variants are both different texts, and
\* which classifies NDMP as Disabled.
C7_Witness ==
    \E t \in Threads :
        /\ Completed(t)
        /\ Contains(content[t], "NDMP daemon admin_state: disabled")
        /\ content[t] \notin CaseVariants(content[t])
        /\ data[t]["NDMP"] = "Disabled"
        /\ parse_services_status(Upper(content[t]))["NDMP"] = "Disabled"

\* C8: in every record about to be returned whose CLOUD_TIER status is not
\* 'Enabled', CLOUD_PROFILES and CLOUD_DATA_MOVEMENT are empty sequences,
\* whatever cloud sections the text holds.
C8_NoCloudDataUnlessEnabled ==
    \A t \in Threads :
        (pc[t] = "return" /\ Get(data[t], "CLOUD_TIER", "Unknown") # "Enabled") =>
            \A k \in {"CLOUD_PROFILES", "CLOUD_DATA_MOVEMENT"} :
                k \in DOMAIN data[t] /\ data[t][k] = <<>>

\* parse_storage_tables has run in this call
TablesParsed(t) ==
    pc[t] \in {"cloud", "source", "return"} /\ raised[t] = NoException

\* C9: for every table family whose section the text does not have, the
\* result of parse_storage_tables maps the family's name to an empty row
\* sequence.
C9_AbsentFamilyIsEmpty ==
    \A t \in Threads :
        TablesParsed(t) =>
            \A fam \in Range(TABLE_NAMES) :
                ~TableMatch(content[t], fam).ok =>
                    /\ fam \in DOMAIN data[t]["STORAGE_TABLES"]
                    /\ data[t]["STORAGE_TABLES"][fam] = <<>>

\* The rows decoded for a family, none when the family has no entry.
RowsOf(tables, fam) == Get(tables, fam, <<>>)

\* C10: for two distinct table families X and Y, taking Y's section out of
\* the text leaves the rows decoded for X unchanged.
C10_SectionsIndependent ==
    \A t \in Threads :
        TablesParsed(t) =>
            LET text == content[t]
            IN  \A y \in UsageFrags : \A i \in 1..Len(text) :
                    MatchLit(text, i, y) =>
                        LET without == SubSeq(text, 1, i - 1)
                                         \o SubSeq(text, i + Len(y), Len(text))
                        IN  \A X, Y \in Range(TABLE_NAMES) :
                                (X # Y /\ TableMatch(y, Y).ok /\ ~TableMatch(y, X).ok)
                                    => RowsOf(parse_storage_tables(without), X)
                                        = RowsOf(data[t]["STORAGE_TABLES"], X)

(***************************************************************************)
(* parse_storage_tables and parse_cloud_data_movement called on their own *)
(* on texts made of one section: a head, some lines, a tail.              *)
(***************************************************************************)

MaxRows == 2

\* The texts head \o l1 \o ... \o lk \o tail, k <= MaxRows, li \in lines.
SectionTexts(head, lines, tail) ==
    {head \o body \o tail : body \in Texts(lines, MaxRows)}

UsageHead == "Active Tier:\nResource           Size GiB   Used GiB\n"

UsageLines ==
    {"/data/col1  100  50  50  50%  10\n",
     "/data/col1          100  50  50  50%  10\n",
     "/data: post-comp    100 - 50 50%\n",
     "/data: post-comp*   7* 8\n",
     "/ddvar/core 1 2\n",
     "pre-comp            5 5 5 5 5\n"}

UsageTexts == SectionTexts(UsageHead, UsageLines, "")

\* The volume list, followed by the retention-lock blocks of /data/col1/a and
\* /data/col1/b and the replication contexts of /data/col1/a and /data/col1/c.
ListHead ==
    "Mtree List\n----------\nName  Pre-Comp (GiB)  Status\n----------  ---\n"

ListLines ==
    {"/data/col1/a   10.5   RW\n",
     "/data/col1/b   3.0   RO/RLCE\n",
     "/data/col1/c   -   RW\n",
     "/data/col1/b/   4.2   RW\n",
     "/data/col1/d  7\n"}

RetentionBlocks ==
    "Mtree: /data/col1/a\nOption  Value\n---  ---\n"
    \o "Retention-lock  enabled\nRetention-lock mode  compliance\n"
    \o "Retention-lock min-retention-period  720 minutes\n"
    \o "Retention-lock max-retention-period  5 years\n---  ---\n"
    \o "Mtree: /data/col1/b\nOption  Value\n---  ---\n"
    \o "Retention-lock mode  governance\n---  ---\n"

ReplicationBlocks ==
    "CTX: 1\nMode: source\nDestination: mtree://h1/data/col1/a\n"
    \o "Connection Host: h2.example.com\nEnabled: yes\n"
    \o "CTX: 2\nMode: destination\nDestination: mtree://h3/data/col1/c\n"
    \o "Enabled: no\n"

ListTail == "----------  ---\n" \o RetentionBlocks \o ReplicationBlocks

ListTexts == SectionTexts(ListHead, ListLines, ListTail)

\* The per-volume compression table of the active tier.
MtreeCompHead == "Mtree Show Compression\nActive Tier:\n------------\n"

MtreeCompLines ==
    {"/data/col1/a      1.0 2.0 3x 4x 5.0x(80.0) 6 7 8x 9x 10(90)\n",
     "/data/col1/b      1 2 3 4 5.0x(80.0) 6 7 8 9 10\n",
     "/data/col1/c      1 2 3 4 5x(8 6 7 8 9 10x(50)\n",
     "/data/col1/d      1.0 2.0 3x 4x 5.0x(80.0)\n",
     "/data/col1/e 1 2 3 4 5 6 7 8 9 10\n",
     "/data/col1/f      1 - 3x 4x 5.0x(80.0) 6 7 8x 9x 10(90)\n"}

MtreeCompTexts == SectionTexts(MtreeCompHead, MtreeCompLines, "Cloud Tier:\n")

\* The compression table of the active tier.
CompHead == "Active Tier:\nPre-Comp Total-Comp\n(GiB)\n"

CompLines ==
    {"Currently Used:* 10 5 2x 3x 4x\n",
     "Written: - 2\n",
     "Last 24 hrs 4\n",
     "Total 7\n"}

CompTexts == SectionTexts(CompHead, CompLines, " * cleaning\n")

TablePool == UsageTexts \cup ListTexts \cup MtreeCompTexts \cup CompTexts

\* The cloud data-movement table.
MovementHead ==
    "Cloud Data-Movement Configuration\n------------------------------\n"

MovementLines ==
    {"/data/col1/a                unit1                     age-threshold 14 days\n",
     "/data/col1/c                unit2                     age-range     7-30 days\n",
     "/data/col1/b   unit1   age-threshold   14 days\n"}

MovementPool ==
    SectionTexts(MovementHead, MovementLines, "Data-movement is scheduled\n")

\* A caller applies parse_storage_tables to a text; the result is in rec.
CallStorageTablesOn(t, pool) ==
    /\ pc[t] = "idle"
    /\ \E text \in pool :
         /\ content' = [content EXCEPT ![t] = text]
         /\ rec' = [rec EXCEPT ![t] = parse_storage_tables(text)]
    /\ op' = [op EXCEPT ![t] = "storage_tables"]
    /\ pc' = [pc EXCEPT ![t] = "done"]
    /\ UNCHANGED <<current_tar, file, data, raised, results,
                   arg, batch, seen>>

CallStorageTables(t) == CallStorageTablesOn(t, TablePool)

\* A caller applies parse_cloud_data_movement to a text.
CallCloudMovementOn(t, pool) ==
    /\ pc[t] = "idle"
    /\ \E text \in pool :
         /\ content' = [content EXCEPT ![t] = text]
         /\ rec' = [rec EXCEPT ![t] = parse_cloud_data_movement(text)]
    /\ op' = [op EXCEPT ![t] = "cloud_movement"]
    /\ pc' = [pc EXCEPT ![t] = "done"]
    /\ UNCHANGED <<current_tar, file, data, raised, results,
                   arg, batch, seen>>

CallCloudMovement(t) == CallCloudMovementOn(t, MovementPool)

TableNext ==
    \E t \in Callers :
        \/ CallStorageTables(t)
        \/ CallCloudMovement(t)
        \/ Discard(t)

TableSpec == Init /\ [][TableNext]_vars

\* parse_storage_tables has returned rec[t] for the text content[t]
TablesReturned(t) == op[t] = "storage_tables" /\ pc[t] = "done"

\* The lines of a family's located section that begin with '/' once trimmed.
SlashLines(text, fam) ==
    LET IsData(l) == StartsWith(Strip(l), "/")
    IN  SelectSeq(SplitLines(Strip(TableSection(text, fam))), IsData)

TwoSpaceRow == "/data/col1  100  50  50  50%  10"

PaddedRow == "/data/col1          100  50  50  50%  10"

UsageRowOf(resource, size, used, avail, pct, cleanable) ==
    [Resource |-> resource, Size_GiB |-> size, Used_GiB |-> used,
     Avail_GiB |-> avail, Use_Percent |-> pct, Cleanable_GiB |-> cleanable]

\* C11 as stated: a text whose located Active Tier usage table has the single
\* data row `/data/col1  100  50  50  50%  10` yields exactly one usage row,
\* with Resource /data/col1, Size 100, Used 50, Avail 50, Use% 50%,
\* Cleanable 10.
C11_TwoSpaceRowDecoded ==
    \A t \in Threads :
        ( /\ TablesReturned(t)
          /\ TableMatch(content[t], "Active Tier Usage").ok
          /\ SlashLines(content[t], "Active Tier Usage") = <<TwoSpaceRow>> )
        => RowsOf(rec[t], "Active Tier Usage")
             = <<UsageRowOf("/data/col1", "100", "50", "50", "50%", "10")>>

\* C11 as the code has it: the single data row yields exactly one usage row
\* with those six values when the resource name is padded to the 18-column
\* resource width; the row written with two spaces between its fields also
\* yields exactly one row, cut at column 18: Resource '/data/col1  100  5',
\* Size 0, Used 50, Avail 50%, Use% 10, Cleanable N/A.
C11_SingleRowDecoded ==
    \A t \in Threads :
        ( /\ TablesReturned(t)
          /\ TableMatch(content[t], "Active Tier Usage").ok )
        => /\ SlashLines(content[t], "Active Tier Usage") = <<PaddedRow>>
              => RowsOf(rec[t], "Active Tier Usage")
                   = <<UsageRowOf("/data/col1", "100", "50", "50", "50%", "10")>>
           /\ SlashLines(content[t], "Active Tier Usage") = <<TwoSpaceRow>>
              => RowsOf(rec[t], "Active Tier Usage")
                   = <<UsageRowOf("/data/col1  100  5", "0", "50", "50%", "10",
                                  "N/A")>>

C11_Witness ==
    \E t \in Threads :
        /\ TablesReturned(t)
        /\ SlashLines(content[t], "Active Tier Usage") = <<PaddedRow>>
        /\ Len(RowsOf(rec[t], "Active Tier Usage")) = 1
        /\ RowsOf(rec[t], "Active Tier Usage")[1].Resource = "/data/col1"

UsageFamilies == {"Active Tier Usage", "Cloud Tier Usage", "Total Usage"}

UsageColumns ==
    {"Resource", "Size_GiB", "Used_GiB", "Avail_GiB", "Use_Percent",
     "Cleanable_GiB"}

\* The '/' lines of a usage section that are neither separator nor header
\* lines: the lines the usage decoder is given.
UsageDataLines(text, fam) ==
    LET IsData(l) ==
            /\ ~Contains(l, "----")
            /\ ~ContainsAny(l, {"Resource", "Size GiB", "Pre-Comp", "Post-Comp"})
    IN  SelectSeq(SlashLines(text, fam), IsData)

TokenOrNA(tokens, i) == IF i <= Len(tokens) THEN tokens[i] ELSE "N/A"

\* What C12 says one line gives: nothing, or one row cut at column 18.
SlicedAt18(line) ==
    LET clean == Strip(RemoveStars(line))
        after == SplitWs(SubSeq(clean, 19, Len(clean)))
    IN  IF Len(clean) <= 18 \/ after = <<>> THEN <<>>
        ELSE <<UsageRowOf(Strip(SubSeq(clean, 1, 18)),
                          TokenOrNA(after, 1), TokenOrNA(after, 2),
                          TokenOrNA(after, 3), TokenOrNA(after, 4),
                          TokenOrNA(after, 5))>>

RECURSIVE SlicedRows(_)
SlicedRows(lines) ==
    IF lines = <<>> THEN <<>>
    ELSE SlicedAt18(Head(lines)) \o SlicedRows(Tail(lines))

MtreeCompFamilies ==
    {"Mtree Active Tier Compression", "Mtree Cloud Tier Compression"}

CompressionFamilies ==
    {"Active Tier Compression", "Cloud Tier Compression",
     "Currently Used Summary"}

\* The lines of a family's located section.
SectionLines(text, fam) == SplitLines(Strip(TableSection(text, fam)))

\* The value tokens of a compression line: those after the metric name.
CompValues(line) ==
    LET parts == SplitWs(Strip(RemoveStars(line)))
        name  == IF parts = <<>> THEN 0
                 ELSE IF parts[1] = "Last" THEN 3
                 ELSE IF parts[1] \in {"Active", "Cloud"} THEN 2
                 ELSE IF parts[1] = "Currently" /\ Len(parts) > 1
                         /\ parts[2] = "Used:" THEN 2
                 ELSE 1
    IN  SubSeq(parts, name + 1, Len(parts))

\* The value tokens of a volume-compression line: those after the name.
MtreeCompValues(line) == Tail(SplitWs(Strip(RemoveStars(line))))

\* A line with fewer fields than the minimum of its family's decoder.
ShortLine(fam, line) ==
    IF fam = "Mtree List"
    THEN Len(SplitWs2(Strip(RemoveStars(line)))) < 3
    ELSE IF fam \in MtreeCompFamilies THEN Len(MtreeCompValues(line)) < 10
    ELSE IF fam \in CompressionFamilies THEN Len(CompValues(line)) < 2
    ELSE FALSE

ShortMovementLine(line) == Len(Strip(line)) <= 60

RECURSIVE JoinNl(_)
JoinNl(lines) ==
    IF Len(lines) = 0 THEN ""
    ELSE IF Len(lines) = 1 THEN lines[1]
    ELSE lines[1] \o "\n" \o JoinNl(Tail(lines))

\* The text without its lines equal (up to surrounding blanks) to line.
WithoutLine(text, line) ==
    LET Keep(l) == Strip(l) # Strip(line)
    IN  JoinNl(SelectSeq(SplitLines(text), Keep))

ShortLineFamilies ==
    {"Mtree List"} \cup MtreeCompFamilies \cup CompressionFamilies

\* The non-blank lines of the located cloud data-movement table.
MovementLinesOf(text) ==
    LET NonBlank(l) == Strip(l) # ""
    IN  IF MovementSection(text).ok
        THEN SelectSeq(SplitLines(Strip(Group(text, MovementSection(text)))),
                       NonBlank)
        ELSE <<>>

\* C13: in a located section a line with fewer fields than its decoder's
\* minimum (volume list: fewer than 3 fields between runs of 2+ blanks;
\* volume compression: fewer than 10 value tokens; compression: fewer than 2
\* value tokens; cloud movement: 60 characters or fewer) is dropped: the call
\* returns, and the rows are those of the same text without that line.
C13_ShortLinesDropped ==
    \A t \in Threads :
        /\ TablesReturned(t) =>
             \A fam \in ShortLineFamilies :
                 TableMatch(content[t], fam).ok =>
                     \A k \in DOMAIN SectionLines(content[t], fam) :
                         LET line == SectionLines(content[t], fam)[k]
                         IN  (Strip(line) # "" /\ ShortLine(fam, line)) =>
                                 RowsOf(rec[t], fam)
                                   = RowsOf(parse_storage_tables(
                                              WithoutLine(content[t], line)),
                                            fam)
        /\ (op[t] = "cloud_movement" /\ pc[t] = "done") =>
             \A k \in DOMAIN MovementLinesOf(content[t]) :
                 LET line == MovementLinesOf(content[t])[k]
                 IN  ShortMovementLine(line) =>
                         rec[t] = parse_cloud_data_movement(
                                      WithoutLine(content[t], line))

\* one well-formed volume-list row and one row of two fields: one row
C13_Witness ==
    \E t \in Threads :
        /\ TablesReturned(t)
        /\ TableMatch(content[t], "Mtree List").ok
        /\ Len(SectionLines(content[t], "Mtree List")) = 2
        /\ \E k \in 1..2 :
               ShortLine("Mtree List", SectionLines(content[t], "Mtree List")[k])
        /\ Len(RowsOf(rec[t], "Mtree List")) = 1

\* The retention fields of a volume-list row, as an entry of the lock table.
RetentionOf(row) ==
    [Retention_Lock |-> row.Retention_Lock, Lock_Mode |-> row.Lock_Mode,
     Min_Retention_Period |-> row.Min_Retention_Period,
     Max_Retention_Period |-> row.Max_Retention_Period]

AllNARetention ==
    [Retention_Lock |-> "N/A", Lock_Mode |-> "N/A",
     Min_Retention_Period |-> "N/A", Max_Retention_Period |-> "N/A"]

\* The replication fields of a volume-list row, as an entry of the
\* replication table.
ReplicationOf(row) ==
    [Mode |-> row.Replication_Mode, Connection_Host |-> row.Replication_Host,
     Enabled |-> row.Replication_Enabled]

AllNAReplication == [Mode |-> "N/A", Connection_Host |-> "N/A", Enabled |-> "N/A"]

\* C14: a volume-list row named V carries the four retention fields of the
\* entry parse_mtree_retention_locks has under the key V exactly, and four
\* 'N/A' when no key is exactly V (a key that differs by a trailing slash is
\* no match).
C14_RetentionByExactKey ==
    \A t \in Threads :
        TablesReturned(t) =>
            LET locks == parse_mtree_retention_locks(content[t])
                rows  == RowsOf(rec[t], "Mtree List")
            IN  \A i \in DOMAIN rows :
                    RetentionOf(rows[i])
                      = IF rows[i].Name \in DOMAIN locks
                        THEN locks[rows[i].Name] ELSE AllNARetention

\* a row /data/col1/b/ beside the lock entry /data/col1/b: no link; and a row
\* /data/col1/a linked to its entry
C14_Witness ==
    \E t \in Threads :
        /\ TablesReturned(t)
        /\ "/data/col1/b" \in DOMAIN parse_mtree_retention_locks(content[t])
        /\ \E i, j \in DOMAIN RowsOf(rec[t], "Mtree List") :
               /\ RowsOf(rec[t], "Mtree List")[i].Name = "/data/col1/b/"
               /\ RowsOf(rec[t], "Mtree List")[i].Retention_Lock = "N/A"
               /\ RowsOf(rec[t], "Mtree List")[j].Name = "/data/col1/a"
               /\ RowsOf(rec[t], "Mtree List")[j].Lock_Mode = "compliance"
               /\ RowsOf(rec[t], "Mtree List")[j].Max_Retention_Period = "5 years"

\* C15: a volume-list row named V carries Mode, Connection_Host and Enabled
\* of the replication entry keyed V exactly, and three 'N/A' when there is
\* none; a miss in one table leaves the fields taken from the other table as
\* that table gives them.
C15_ReplicationByExactKey ==
    \A t \in Threads :
        TablesReturned(t) =>
            LET locks == parse_mtree_retention_locks(content[t])
                repl  == parse_mtree_replication_info(content[t])
                rows  == RowsOf(rec[t], "Mtree List")
            IN  \A i \in DOMAIN rows :
                    /\ ReplicationOf(rows[i])
                         = IF rows[i].Name \in DOMAIN repl
                           THEN repl[rows[i].Name] ELSE AllNAReplication
                    /\ (rows[i].Name \notin DOMAIN repl
                        /\ rows[i].Name \in DOMAIN locks)
                       => RetentionOf(rows[i]) = locks[rows[i].Name]
                    /\ (rows[i].Name \notin DOMAIN locks
                        /\ rows[i].Name \in DOMAIN repl)
                       => ReplicationOf(rows[i]) = repl[rows[i].Name]

\* /data/col1/b has a lock entry and no replication context, /data/col1/c
\* the reverse
C15_Witness ==
    \E t \in Threads :
        /\ TablesReturned(t)
        /\ \E i, j \in DOMAIN RowsOf(rec[t], "Mtree List") :
               /\ RowsOf(rec[t], "Mtree List")[i].Name = "/data/col1/b"
               /\ RowsOf(rec[t], "Mtree List")[i].Lock_Mode = "governance"
               /\ RowsOf(rec[t], "Mtree List")[i].Replication_Mode = "N/A"
               /\ RowsOf(rec[t], "Mtree List")[j].Name = "/data/col1/c"
               /\ RowsOf(rec[t], "Mtree List")[j].Retention_Lock = "N/A"
               /\ RowsOf(rec[t], "Mtree List")[j].Replication_Mode = "destination"
               /\ RowsOf(rec[t], "Mtree List")[j].Replication_Enabled = "no"

\* The lines of a family's located section that give a row, in order.
RowLines(text, fam) ==
    LET Gives(l) ==
            DecodeLine(fam, l, parse_mtree_retention_locks(text),
                       parse_mtree_replication_info(text)) # <<>>
    IN  SelectSeq(SectionLines(text, fam), Gives)

\* The value cells of a source line, as the family's layout presents them:
\* the tokens after column 18 (usage), the fields after the name (volume
\* list), the tokens after the metric (compression) or after the volume name
\* (volume compression), '*' marks removed.
SourceCells(fam, line) ==
    LET clean == Strip(RemoveStars(line))
    IN  IF fam \in UsageFamilies THEN SplitWs(SubSeq(clean, 19, Len(clean)))
        ELSE IF fam = "Mtree List" THEN Tail(SplitWs2(clean))
        ELSE IF fam \in MtreeCompFamilies THEN MtreeCompValues(line)
        ELSE CompValues(line)

\* The value columns of a decoded row in the order of their source cells;
\* "" stands for a cell that is split (the two totals of volume compression).
RowCells(fam, row) ==
    IF fam \in UsageFamilies
    THEN <<row.Size_GiB, row.Used_GiB, row.Avail_GiB, row.Use_Percent,
           row.Cleanable_GiB>>
    ELSE IF fam = "Mtree List" THEN <<row.Pre_Comp_GiB, row.Status>>
    ELSE IF fam \in MtreeCompFamilies
    THEN <<row.Pre_24hrs_GiB, row.Post_24hrs_GiB, row.Global_24hrs,
           row.Local_24hrs, "", row.Pre_7days_GiB, row.Post_7days_GiB,
           row.Global_7days, row.Local_7days, "">>
    ELSE <<row.Pre_Comp_GiB, row.Post_Comp_GiB, row.Global_Comp_Factor,
           row.Local_Comp_Factor, row.Total_Comp_Factor>>

Positions(s, c) == {k \in 1..Len(s) : Ch(s, k) = c}

\* cell has the form T(P): one '(', one ')', the ')' last.
IsTotalWithPercent(cell) ==
    /\ Cardinality(Positions(cell, "(")) = 1
    /\ Positions(cell, ")") = {Len(cell)}
    /\ Find(cell, "(", 1) < Len(cell)

\* What C19 says a total cell gives, as <<Total, Reduction>>; a cell of
\* neither kind is left open.
SplitOnParentheses(cell, got) ==
    IF IsTotalWithPercent(cell)
    THEN got = <<SubSeq(cell, 1, Find(cell, "(", 1) - 1),
                 SubSeq(cell, Find(cell, "(", 1) + 1, Len(cell) - 1)>>
    ELSE IF Positions(cell, "(") = {} \/ Positions(cell, ")") = {}
    THEN got = <<cell, "N/A">>
    ELSE TRUE

\* C19: in every volume-compression row the 5th value gives Total_24hrs and
\* Reduction_24hrs_Percent and the 10th gives Total_7days and
\* Reduction_7days_Percent, each on its own: T(P) gives T and P, a cell
\* lacking '(' or ')' gives the whole cell and 'N/A'.
C19_TotalCellSplit ==
    \A t \in Threads :
        TablesReturned(t) =>
            \A fam \in MtreeCompFamilies :
                LET rows  == RowsOf(rec[t], fam)
                    lines == RowLines(content[t], fam)
                IN  TableMatch(content[t], fam).ok =>
                      /\ Len(rows) = Len(lines)
                      /\ \A i \in DOMAIN rows :
                           /\ SplitOnParentheses(
                                  MtreeCompValues(lines[i])[5],
                                  <<rows[i].Total_24hrs,
                                    rows[i].Reduction_24hrs_Percent>>)
                           /\ SplitOnParentheses(
                                  MtreeCompValues(lines[i])[10],
                                  <<rows[i].Total_7days,
                                    rows[i].Reduction_7days_Percent>>)

\* a row whose 24-hour total '5x(8' has no ')' and whose 7-day total is
\* '10x(50)'
C19_Witness ==
    \E t \in Threads :
        /\ TablesReturned(t)
        /\ \E i \in DOMAIN RowsOf(rec[t], "Mtree Active Tier Compression") :
             LET row == RowsOf(rec[t], "Mtree Active Tier Compression")[i]
             IN  /\ row.Total_24hrs = "5x(8"
                 /\ row.Reduction_24hrs_Percent = "N/A"
                 /\ row.Total_7days = "10x"
                 /\ row.Reduction_7days_Percent = "50"

(***************************************************************************)
(* process_directory: one caller, the archives and mails of a directory.  *)
(***************************************************************************)

\* The one report text the batch, sequential and parallel runs read.
OneReport == {"HOSTNAME=host1.example.com\n"}

\* What os.listdir gives for the directories looked at, in the order it gives
\* it.
Listings ==
    {<<>>,
     <<"notes.txt">>,
     <<"b.tar.gz", "a.tar.gz">>,
     <<"m.eml", "b.tar.gz", "a.tar.gz">>,
     <<"m.eml", "k.eml", "a.tar.gz">>,
     <<"a.tar.gz", "notes.txt", "m.eml">>,
     <<"k.eml", "b.tar.gz", "m.eml", "a.tar.gz">>}

\* The characters of the file names, in code point order.
CodePoints == "-./0123456789" \o UpperAlpha \o "_" \o LowerAlpha

Ord(c) == CHOOSE i \in 1..Len(CodePoints) : Ch(CodePoints, i) = c

\* a < b for str
RECURSIVE StrLess(_, _)
StrLess(a, b) ==
    IF b = "" THEN FALSE
    ELSE IF a = "" THEN TRUE
    ELSE IF Ch(a, 1) # Ch(b, 1) THEN Ord(Ch(a, 1)) < Ord(Ch(b, 1))
    ELSE StrLess(SubSeq(a, 2, Len(a)), SubSeq(b, 2, Len(b)))

\* sorted(names)
RECURSIVE sorted(_)
sorted(names) ==
    IF names = <<>> THEN <<>>
    ELSE LET rest == sorted(Tail(names))
             IsBefore(x) == ~StrLess(Head(names), x)
             IsAfter(x) == StrLess(Head(names), x)
         IN  SelectSeq(rest, IsBefore) \o <<Head(names)>> \o SelectSeq(rest, IsAfter)

\* name.endswith(suffix)
EndsWith(name, suffix) ==
    /\ Len(name) >= Len(suffix)
    /\ SubSeq(name, Len(name) - Len(suffix) + 1, Len(name)) = suffix

\* [os.path.join(directory, file) for file in names if file.endswith(suffix)]
JoinedWith(directory, names, suffix) ==
    LET Ends(name) == EndsWith(name, suffix)
        kept == SelectSeq(names, Ends)
    IN  [n \in DOMAIN kept |-> directory \o "/" \o kept[n]]

\* A process_directory that takes the archives and mails in the order of
\* os.listdir.
ProcessDirectoryUnsorted(t) ==
    /\ pc[t] = "idle"
    /\ \E names \in Listings :
         LET tar_files == JoinedWith("/in", names, ".tar.gz")
             eml_files == JoinedWith("/in", names, ".eml")
         IN  /\ batch' = [batch EXCEPT ![t] =
                    [active |-> TRUE, tar_files |-> tar_files,
                     eml_files |-> eml_files, results |-> <<>>]]
             /\ seen' = [seen EXCEPT ![t] =
                    [NothingSeen EXCEPT !.listed = Len(tar_files) + Len(eml_files),
                                        !.names = names]]
    /\ op' = [op EXCEPT ![t] = "dir"]
    /\ pc' = [pc EXCEPT ![t] = "loop"]
    /\ arg' = [arg EXCEPT ![t] = "/in"]
    /\ UNCHANGED <<current_tar, file, content, data, raised, rec, results>>

\* process_directory(directory) up to the loops; batch holds the lists the
\* loops run over, sorted(tar_files) and sorted(eml_files).
ProcessDirectory(t) ==
    /\ pc[t] = "idle"
    /\ \E names \in Listings :
         LET tar_files == JoinedWith("/in", names, ".tar.gz")
             eml_files == JoinedWith("/in", names, ".eml")
         IN  /\ batch' = [batch EXCEPT ![t] =
                    [active |-> TRUE, tar_files |-> sorted(tar_files),
                     eml_files |-> sorted(eml_files), results |-> <<>>]]
             /\ seen' = [seen EXCEPT ![t] =
                    [NothingSeen EXCEPT !.listed = Len(tar_files) + Len(eml_files),
                                        !.names = names]]
    /\ op' = [op EXCEPT ![t] = "dir"]
    /\ pc' = [pc EXCEPT ![t] = "loop"]
    /\ arg' = [arg EXCEPT ![t] = "/in"]
    /\ UNCHANGED <<current_tar, file, content, data, raised, rec, results>>

\* The next iteration of `for tar_file in sorted(tar_files)` and, these
\* exhausted, of `for eml_file in sorted(eml_files)`: the call of
\* process_single_tar / process_single_eml.
BatchStep(t) ==
    /\ pc[t] = "loop"
    /\ batch[t].active
    /\ \/ /\ batch[t].tar_files # <<>>
          /\ StartTar(t, Head(batch[t].tar_files), OneReport)
          /\ batch' = [batch EXCEPT ![t].tar_files = Tail(@)]
       \/ /\ batch[t].tar_files = <<>>
          /\ batch[t].eml_files # <<>>
          /\ StartEml(t, Head(batch[t].eml_files), OneReport)
          /\ batch' = [batch EXCEPT ![t].eml_files = Tail(@)]
    /\ seen' = [seen EXCEPT ![t].started = @ + 1,
                            ![t].extracted = IF pc'[t] = "read" THEN @ + 1 ELSE @]

\* A loop body that ends the batch when an archive or mail gave no record.
BatchExtendOrStop(t) ==
    /\ pc[t] = "done"
    /\ batch[t].active
    /\ op[t] \in {"tar", "eml"}
    /\ batch' = [batch EXCEPT ![t].results = @ \o results[t],
                              ![t].tar_files = IF results[t] = <<>> THEN <<>> ELSE @,
                              ![t].eml_files = IF results[t] = <<>> THEN <<>> ELSE @]
    /\ results' = [results EXCEPT ![t] = <<>>]
    /\ rec' = [rec EXCEPT ![t] = EmptyDict]
    /\ raised' = [raised EXCEPT ![t] = NoException]
    /\ pc' = [pc EXCEPT ![t] = "loop"]
    /\ UNCHANGED <<current_tar, op, file, content, data, arg, seen>>

\* `results.extend(file_results)`
BatchExtend(t) ==
    /\ pc[t] = "done"
    /\ batch[t].active
    /\ op[t] \in {"tar", "eml"}
    /\ batch' = [batch EXCEPT ![t].results = @ \o results[t]]
    /\ results' = [results EXCEPT ![t] = <<>>]
    /\ rec' = [rec EXCEPT ![t] = EmptyDict]
    /\ raised' = [raised EXCEPT ![t] = NoException]
    /\ pc' = [pc EXCEPT ![t] = "loop"]
    /\ UNCHANGED <<current_tar, op, file, content, data, arg, seen>>

\* `return results`: after the loops, or at once when nothing was listed.
BatchReturn(t) ==
    /\ pc[t] = "loop"
    /\ batch[t].active
    /\ batch[t].tar_files = <<>>
    /\ batch[t].eml_files = <<>>
    /\ results' = [results EXCEPT ![t] = batch[t].results]
    /\ batch' = [batch EXCEPT ![t] = NoBatch]
    /\ op' = [op EXCEPT ![t] = "dir"]
    /\ pc' = [pc EXCEPT ![t] = "done"]
    /\ UNCHANGED <<current_tar, file, content, data, raised, rec, arg, seen>>

BatchNext ==
    \E t \in Callers :
        \/ ProcessDirectory(t)
        \/ BatchStep(t)
        \/ BatchExtend(t)
        \/ BatchReturn(t)
        \/ ReadFile(t)
        \/ ReadFails(t)
        \/ Raise(t)
        \/ ExtractFields(t)
        \/ ParseServices(t)
        \/ ParseTables(t)
        \/ ParseCloud(t)
        \/ AddSource(t)
        \/ HandleException(t)
        \/ Return(t)
        \/ Discard(t)

BatchSpec == Init /\ [][BatchNext]_vars

\* The interpreter keeps running the caller: a step that can be taken is
\* taken.
FairBatchSpec == BatchSpec /\ WF_vars(BatchNext)

\* process_directory has returned results[t]
BatchReturned(t) == op[t] = "dir" /\ pc[t] = "done"

\* The number of degraded records in a list of records.
RECURSIVE DegradedCount(_)
DegradedCount(records) ==
    IF records = <<>> THEN 0
    ELSE (IF IsDegraded(Head(records)) THEN 1 ELSE 0)
         + DegradedCount(Tail(records))

\* When process_directory returns: every listed archive and mail was handed
\* to process_single_tar / process_single_eml, the result has one record per
\* extracted document, and as many degraded records as documents whose parse
\* failed.
BatchComplete(t) ==
    BatchReturned(t) =>
        /\ seen[t].started = seen[t].listed
        /\ Len(results[t]) = seen[t].extracted
        /\ DegradedCount(results[t]) = seen[t].degraded

\* C18: in process_directory an archive that cannot be extracted and a
\* document that cannot be read or parsed never stop the batch: all later
\* archives and mails are processed, an unextractable archive adds no record,
\* a failed document adds exactly one degraded record, and the call always
\* returns, with one record per extracted document.
C18_BatchAlwaysCompletes ==
    /\ [](\A t \in Callers : BatchComplete(t))
    /\ \A t \in Callers : batch[t].active ~> BatchReturned(t)

\* three files listed; one gave no document, one document failed, one parsed
C18_Witness ==
    \E t \in Callers :
        /\ BatchReturned(t)
        /\ seen[t].listed = 3
        /\ seen[t].extracted = 2
        /\ seen[t].degraded = 1
        /\ Len(results[t]) = 2

(***************************************************************************)
(* One parser object used for several calls: one after the other by a     *)
(* caller that keeps what an earlier call returned, and at the same time  *)
(* by two threads.                                                         *)
(***************************************************************************)

ArchivePaths == {"/in/a.tar.gz", "/in/b.tar.gz"}

\* A step of a call made through slot t of the parser's callers.
CallStep(t) ==
    \/ CallParseOn(t, DirectPaths, OneReport)
    \/ ProcessSingleTarOn(t, ArchivePaths, OneReport)
    \/ ProcessSingleEmlOn(t, EmlPaths, OneReport)
    \/ ReadFile(t)
    \/ ReadFails(t)
    \/ ExtractFields(t)
    \/ ParseServices(t)
    \/ ParseTables(t)
    \/ ParseCloud(t)
    \/ AddSource(t)
    \/ Raise(t)
    \/ HandleException(t)
    \/ Return(t)
    \/ Discard(t)

\* No call is in progress in the other slots.
OthersAtRest(t) == \A u \in Threads \ {t} : pc[u] \in {"idle", "done"}

\* Calls made one after the other: a call starts and runs only while no other
\* is in progress; a returned value may be kept while later calls are made.
SeqNext == \E t \in Threads : OthersAtRest(t) /\ CallStep(t)

SeqSpec == Init /\ [][SeqNext]_vars

\* Two threads calling the same parser object, their steps interleaved.
ParallelNext == \E t \in Threads : CallStep(t)

ParallelSpec == Init /\ [][ParallelNext]_vars

\* parse_autosupport_file(arg[t]) has returned rec[t]
ParseReturned(t) == op[t] = "parse" /\ pc[t] = "done"

\* C16: two parses of the same document by the same parser, whatever calls
\* were made in between, return equal records.  (The document at a path is
\* the same when the path is the same and the read went the same way.)
C16_SameDocumentSameRecord ==
    \A t, u \in Threads :
        ( /\ ParseReturned(t) /\ ParseReturned(u)
          /\ arg[t] = arg[u]
          /\ raised[t] = raised[u] )
        => rec[t] = rec[u]

\* C17: a record made by process_single_tar / process_single_eml for archive
\* (or mail) A carries A's name as SOURCE_TAR, whatever another thread does
\* with the same parser at the same time.
C17_SourceTarIsOwnArchive ==
    \A t \in Threads :
        (op[t] \in {"tar", "eml"} /\ pc[t] = "return")
        => data[t]["SOURCE_TAR"] = Basename(arg[t])

(***************************************************************************)
(* parse_cloud_profiles called on its own on texts made of a section head *)
(* and some labelled lines.                                                *)
(***************************************************************************)

ProfileFrags ==
    {"Profile name: p1\nProvider: aws\n",
     "Profile name: p2\nProvider: ecs\nEndpoint: s3.example.com\nVersion: 2\n",
     "Proxy host:\nProxy port: 8080\n",
     "Profile name: p3\nEndpoint: e3\n",
     "Endpoint: e1\nProxy username: u\n"}

ProfilePool == SectionTexts("Cloud Profiles\n----------\n", ProfileFrags, "")

\* A caller applies parse_cloud_profiles to a text.
CallCloudProfiles(t) ==
    /\ pc[t] = "idle"
    /\ \E text \in ProfilePool :
         /\ content' = [content EXCEPT ![t] = text]
         /\ rec' = [rec EXCEPT ![t] = parse_cloud_profiles(text)]
    /\ op' = [op EXCEPT ![t] = "cloud_profiles"]
    /\ pc' = [pc EXCEPT ![t] = "done"]
    /\ UNCHANGED <<current_tar, file, data, raised, results,
                   arg, batch, seen>>

(***************************************************************************)
(* Usage tables with annotation lines after them.                          *)
(***************************************************************************)

NoteFrags ==
    {"Active Tier:\nResource  Size GiB\n/data: post-comp    100 50 50 50% 10\n",
     " * Estimated based on last cleaning\n",
     "Cloud Tier\nResource  Size GiB\n/data: post-comp    200 50 150 25% 0\n"
        \o " * Cloud figures are delayed\n",
     "/data: post-comp    100 50 50 50% 10\n * From an earlier listing\n",
     "Total:\nResource  Size GiB\n\n"}

NotePool == SectionTexts("", NoteFrags, "")

CallNotedTables(t) == CallStorageTablesOn(t, NotePool)

(***************************************************************************)
(* Sections with and without the markers that bound them.                  *)
(***************************************************************************)

\* The texts of a section with both markers, without its end marker and
\* without its start marker.
BoundTexts(head, lines, tail) ==
    SectionTexts(head, lines, tail) \cup SectionTexts(head, lines, "")
        \cup SectionTexts("", lines, tail)

BoundMtreeCompLines ==
    {"/data/col1/a      1.0 2.0 3x 4x 5.0x(80.0) 6 7 8x 9x 10(90)\n",
     "/data/col1/f      1 - 3x 4x 5.0x(80.0) 6 7 8x 9x 10(90)\n"}

BoundCompLines == {"Currently Used:* 10 5 2x 3x 4x\n", "Written: - 2\n"}

BoundTablePool ==
    BoundTexts(MtreeCompHead, BoundMtreeCompLines, "Cloud Tier:\n")
        \cup BoundTexts(CompHead, BoundCompLines, " * cleaning\n")

\* The data-movement lines, and one of more than 60 characters that ends
\* with its policy.
BoundMovementLines ==
    MovementLines
        \cup {"/data/col1/d                unit3                     age-threshold\n"}

BoundMovementPool ==
    BoundTexts(MovementHead, BoundMovementLines, "Data-movement is scheduled\n")

CallBoundTables(t) == CallStorageTablesOn(t, BoundTablePool)

CallBoundMovement(t) == CallCloudMovementOn(t, BoundMovementPool)

(***************************************************************************)
(* parse_services_status called on its own on texts that hold enabled and *)
(* disabled phrases of the services whose enabled phrase is tried first.   *)
(***************************************************************************)

ServiceLines ==
    {"The NFS system is currently active and running\n",
     "NFS is disabled\n",
     "Cloud Unit: u1\n",
     "CLOUD TIER: disabled\n",
     "cloud tier is disabled\n",
     "Enabled: yes\n",
     "Enabled: no\n",
     "replication is disabled\n"}

ServicePool == SectionTexts("", ServiceLines, "")

\* A caller applies parse_services_status to a text.
CallServicesStatus(t) ==
    /\ pc[t] = "idle"
    /\ \E text \in ServicePool :
         /\ content' = [content EXCEPT ![t] = text]
         /\ rec' = [rec EXCEPT ![t] = parse_services_status(text)]
    /\ op' = [op EXCEPT ![t] = "services_status"]
    /\ pc' = [pc EXCEPT ![t] = "done"]
    /\ UNCHANGED <<current_tar, file, data, raised, results,
                   arg, batch, seen>>

(***************************************************************************)
(* A volume list of three volumes followed by retention-lock blocks, or by *)
(* replication contexts, that vary.                                        *)
(***************************************************************************)

LinkHead ==
    ListHead \o "/data/col1/a   10.5   RW\n/data/col1/b   3.0   RO\n"
        \o "/data/col1/c   1.0   RW\n----------  ---\n"

RetentionFrags ==
    {"Mtree: /data/col1/a\nOption  Value\n---  ---\n"
        \o "Retention-lock  enabled\nRetention-lock mode  compliance\n---  ---\n",
     "Mtree: /data/col1/a\nOption  Value\n---  ---\n"
        \o "Retention-lock  disabled (never enabled)\n"
        \o "Retention-lock min-retention-period  720 minutes\n---  ---\n",
     "Mtree: /data/col1/b\nOption  Value\n---  ---\n"
        \o "Retention-lock  Enabled (compliance)\n---  ---\n",
     "Mtree: /data/col1/b\nOption  Value\n---  ---\n"
        \o "Retention-lock mode  governance\n---  ---\n"}

ReplicationFrags ==
    {"CTX: 1\nMode: source\nDestination: mtree://h1/data/col1/a\n"
        \o "Connection Host: h2.example.com\nEnabled: yes\n",
     "CTX: 2\nMode: destination\nDestination: mtree://h3/backup/x\n"
        \o "Connection Host: h9.example.com\nEnabled: no\n",
     "CTX: 3\nDestination: mtree://h/data/col1/b/data/col1/c\n"
        \o "Connection Host: plain\n",
     "CTX: 4\nMode: destination\nDestination: mtree://h4/data/col1/a\n"
        \o "Enabled: no\n",
     "CTX: 5\nMode: source\nConnection Host: h5.example.com\nEnabled: yes\n"}

LinkPool ==
    SectionTexts(LinkHead, RetentionFrags, "")
        \cup SectionTexts(LinkHead, ReplicationFrags, "")

CallLinkedTables(t) == CallStorageTablesOn(t, LinkPool)

(***************************************************************************)
(* The calls of the section parsers on their own.                          *)
(***************************************************************************)

SectionNext ==
    \E t \in Callers :
        \/ CallCloudProfiles(t)
        \/ CallNotedTables(t)
        \/ CallBoundTables(t)
        \/ CallBoundMovement(t)
        \/ CallServicesStatus(t)
        \/ CallLinkedTables(t)
        \/ Discard(t)

SectionSpec == Init /\ [][SectionNext]_vars

(***************************************************************************)
(* Cloud profiles.                                                         *)
(***************************************************************************)

\* parse_cloud_profiles has returned rec[t] for the text content[t]
ProfilesReturned(t) == op[t] = "cloud_profiles" /\ pc[t] = "done"

ProfileColumns ==
    {"Profile_Name", "Provider", "Endpoint", "Version", "Proxy_Host",
     "Proxy_Port", "Proxy_Username"}

\* The label of the line that fills a column.
ProfileLabel ==
    [Profile_Name |-> "Profile name:", Provider |-> "Provider:",
     Endpoint |-> "Endpoint:", Version |-> "Version:",
     Proxy_Host |-> "Proxy host:", Proxy_Port |-> "Proxy port:",
     Proxy_Username |-> "Proxy username:"]

\* The values the lines of a block give for a column: what follows the label
\* on the trimmed lines that begin with it.
LabelledValues(block, col) ==
    LET Labelled(l) == StartsWith(Strip(l), ProfileLabel[col])
    IN  {AfterLabel(Strip(l), ProfileLabel[col]) :
            l \in Range(SelectSeq(SplitLines(block), Labelled))}

\* The profile blocks of a text that give a row: those with a profile name
\* line and a provider line.
RowBlocks(text) ==
    LET Gives(b) == /\ LabelledValues(b, "Profile_Name") # {}
                    /\ LabelledValues(b, "Provider") # {}
    IN  SelectSeq(ProfileBlocks(Group(text, ProfilesSection(text))), Gives)

\* C21: every cloud-profile row has the seven columns Profile_Name,
\* Provider, Endpoint, Version, Proxy_Host, Proxy_Port, Proxy_Username; a
\* column whose labelled line is absent from the profile block, and a proxy
\* column whose line has an empty value, holds 'N/A'.
C21_ProfileRowsFullColumns ==
    \A t \in Callers :
        ProfilesReturned(t) =>
            /\ Len(rec[t]) = Len(RowBlocks(content[t]))
            /\ \A i \in DOMAIN rec[t] :
                 /\ DOMAIN rec[t][i] = ProfileColumns
                 /\ \A col \in ProfileColumns :
                      LET given == LabelledValues(RowBlocks(content[t])[i], col)
                      IN  ( \/ given = {}
                            \/ /\ col \in {"Proxy_Host", "Proxy_Port",
                                            "Proxy_Username"}
                               /\ given = {""} )
                          => /\ col \in DOMAIN rec[t][i]
                             /\ rec[t][i][col] = "N/A"

(***************************************************************************)
(* Table notes.                                                            *)
(***************************************************************************)

\* The annotation lines right after a table: blank lines apart, the lines
\* from the end of the located section up to the first one that does not
\* start with '*'.
RECURSIVE LeadingNotes(_)
LeadingNotes(lines) ==
    IF lines = <<>> THEN <<>>
    ELSE LET line == Strip(Head(lines))
         IN  IF line = "" THEN LeadingNotes(Tail(lines))
             ELSE IF StartsWith(line, "*")
             THEN <<line>> \o LeadingNotes(Tail(lines))
             ELSE <<>>

OwnNotes(text, fam) ==
    LeadingNotes(SplitLines(SubSeq(text, TableMatch(text, fam).e, Len(text))))

\* C22: the note stored for a table is made of the annotation lines that
\* immediately follow the table's own located section, and of nothing else:
\* a table with no such lines has no note, whatever annotation lines stand
\* further down or after an earlier occurrence of the section's text.
C22_NoteIsOwnAnnotation ==
    \A t \in Callers :
        TablesReturned(t) =>
            \A fam \in MatchedTables(content[t]) :
                IF OwnNotes(content[t], fam) = <<>>
                THEN NoteKey(fam) \notin DOMAIN rec[t]
                ELSE /\ NoteKey(fam) \in DOMAIN rec[t]
                     /\ rec[t][NoteKey(fam)] = JoinSp(OwnNotes(content[t], fam))

(***************************************************************************)
(* Section location.                                                       *)
(***************************************************************************)

\* parse_cloud_data_movement has returned rec[t] for the text content[t]
MovementReturned(t) == op[t] = "cloud_movement" /\ pc[t] = "done"

\* The markers of the sections looked at: the text of the start marker and
\* the texts an end marker matches.
BoundMarkers ==
    ("Mtree Active Tier Compression" :>
        [start |-> MtreeCompHead, ends |-> {"----------", "Cloud Tier:"}])
    @@ ("Active Tier Compression" :>
        [start |-> CompHead, ends |-> {"\n * cleaning", "\nCloud Tier:"}])
    @@ ("Cloud Data-Movement" :>
        [start |-> MovementHead, ends |-> {"\nData-movement is scheduled"}])

\* The text strictly between the first match of the start marker and the
\* first match of an end marker after it; empty when either is missing.
BodyBetween(text, markers) ==
    LET s    == Find(text, markers.start, 1)
        g    == s + Len(markers.start)
        ends == {k \in g..Len(text) : \E lit \in markers.ends : MatchLit(text, k, lit)}
    IN  IF s = 0 \/ ends = {} THEN "" ELSE SubSeq(text, g, SetMin(ends) - 1)

\* C23: the rows of a section are those of the text strictly between the
\* first match of its start marker and the first following match of one of
\* its end markers, and there are none when either marker is missing: a
\* data-movement section without the 'Data-movement is scheduled' line and a
\* compression table without its terminator yield no rows.
C23_BodyBetweenMarkers ==
    \A t \in Callers :
        /\ TablesReturned(t) =>
             \A fam \in {"Mtree Active Tier Compression", "Active Tier Compression"} :
                RowsOf(rec[t], fam)
                  = TableRows(fam, BodyBetween(content[t], BoundMarkers[fam]),
                              <<>>, <<>>)
        /\ MovementReturned(t) =>
             rec[t] = MovementRows(SplitLines(Strip(
                        BodyBetween(content[t], BoundMarkers["Cloud Data-Movement"]))))

(***************************************************************************)
(* Provenance of the records of calls made one after the other.           *)
(***************************************************************************)

\* The document process_single_tar / process_single_eml parses for a path.
MemberOf(o, path) == IF o = "tar" THEN TarMember ELSE EmlMember(path)

\* C24: in calls made one after the other, every record made by
\* process_single_tar / process_single_eml for an archive (or mail) carries
\* that archive's base name as SOURCE_TAR, never the name of one processed
\* before, and the base name of the parsed document as SOURCE_FILE; a record
\* parsed before any archive was processed carries SOURCE_TAR 'N/A'.
C24_SequentialProvenance ==
    \A t \in Threads :
        /\ (op[t] \in {"tar", "eml"} /\ pc[t] = "return") =>
              /\ data[t]["SOURCE_TAR"] = Basename(arg[t])
              /\ data[t]["SOURCE_FILE"] = Basename(file[t].path)
        /\ (op[t] \in {"tar", "eml"} /\ pc[t] = "done") =>
              \A i \in DOMAIN results[t] :
                 /\ results[t][i]["SOURCE_TAR"] = Basename(arg[t])
                 /\ results[t][i]["SOURCE_FILE"]
                      = Basename(MemberOf(op[t], arg[t]))
        /\ (op[t] = "parse" /\ pc[t] = "return" /\ current_tar = NoAttr) =>
              data[t]["SOURCE_TAR"] = "N/A"

\* the record of a.tar.gz is kept while the record of b.tar.gz is returned
C24_Witness ==
    \E t, u \in Threads :
        /\ op[u] = "tar" /\ pc[u] = "done" /\ arg[u] = "/in/a.tar.gz"
        /\ Len(results[u]) = 1
        /\ results[u][1]["SOURCE_TAR"] = "a.tar.gz"
        /\ op[t] = "tar" /\ pc[t] = "return" /\ arg[t] = "/in/b.tar.gz"
        /\ data[t]["SOURCE_TAR"] = "b.tar.gz"
        /\ data[t]["SOURCE_FILE"] = "autosupport"

(***************************************************************************)
(* Services whose enabled phrase is tried first.                           *)
(***************************************************************************)

\* parse_services_status has returned rec[t] for the text content[t]
ServicesReturned(t) == op[t] = "services_status" /\ pc[t] = "done"

EnabledFirstServices == {"NFS", "CLOUD_TIER", "REPLICATION"}

\* The text matches both the enabled and the disabled predicate of s.
MatchesBoth(text, s) ==
    /\ ServicePredicates(text)[s][1] = <<TRUE, "Enabled">>
    /\ ServicePredicates(text)[s][2] = <<TRUE, "Disabled">>

\* C25: for NFS, CLOUD_TIER and REPLICATION a text that matches both the
\* service's enabled predicate and its disabled predicate is classified
\* 'Enabled'; an 'Enabled: yes' line anywhere in the text makes REPLICATION
\* 'Enabled' whatever else the text holds.
C25_EnabledPhraseWins ==
    \A t \in Callers :
        ServicesReturned(t) =>
            /\ \A s \in EnabledFirstServices :
                  MatchesBoth(content[t], s) => rec[t][s] = "Enabled"
            /\ "Enabled: yes" \in Range(SplitLines(content[t]))
                  => rec[t]["REPLICATION"] = "Enabled"

\* 'Enabled: no' comes first in the text, 'Enabled: yes' after it; one line
\* matches both cloud-tier predicates
C25_Witness ==
    \E t \in Callers :
        /\ ServicesReturned(t)
        /\ content[t] = "Enabled: no\nEnabled: yes\n"
        /\ MatchesBoth(content[t], "REPLICATION")
        /\ rec[t]["REPLICATION"] = "Enabled"
        /\ ~MatchesBoth(content[t], "NFS")

(***************************************************************************)
(* Retention-lock blocks and replication contexts linked to the rows of   *)
(* the volume list.                                                        *)
(***************************************************************************)

\* The options sections of the retention-lock blocks of a volume, in the
\* order of the text.
BlocksFor(text, volume) ==
    LET matches == RetentionMatches(text, 1)
        IsFor(m) == m[1] = volume
        blocks == SelectSeq(matches, IsFor)
    IN  [n \in DOMAIN blocks |-> blocks[n][2]]

\* The values of the option lines of a block for one option.
OptionValues(block, option) ==
    LET lines == SplitLines(Strip(block))
        Named(l) == /\ Len(SplitWs2(Strip(l))) >= 2
                    /\ SplitWs2(Strip(l))[1] = option
    IN  {SplitWs2(Strip(l))[2] : l \in Range(SelectSeq(lines, Named))}

\* The block has a 'Retention-lock' option whose value starts with 'enabled'
LockEnabled(block) ==
    \E v \in OptionValues(block, "Retention-lock") :
        StartsWith(Lower(v), "enabled")

\* C26: in every volume-list row Retention_Lock is 'N/A' exactly when the
\* volume has no retention-lock block, 'enabled' exactly when it has one
\* whose 'Retention-lock' value starts with 'enabled' in any letter case,
\* and 'disabled' for every other block, one without a 'Retention-lock'
\* line included.
C26_RetentionLockValues ==
    \A t \in Callers :
        TablesReturned(t) =>
            \A i \in DOMAIN RowsOf(rec[t], "Mtree List") :
                LET row    == RowsOf(rec[t], "Mtree List")[i]
                    blocks == BlocksFor(content[t], row.Name)
                IN  /\ row.Retention_Lock \in {"enabled", "disabled", "N/A"}
                    /\ row.Retention_Lock = "N/A" <=> blocks = <<>>
                    /\ row.Retention_Lock = "enabled"
                         <=> /\ blocks # <<>>
                             /\ LockEnabled(blocks[Len(blocks)])

\* one text gives 'enabled', 'disabled' from a block without a
\* 'Retention-lock' line, and 'N/A' for the volume without a block
C26_Witness ==
    \E t \in Callers :
        /\ TablesReturned(t)
        /\ Len(RowsOf(rec[t], "Mtree List")) = 3
        /\ LET rows == RowsOf(rec[t], "Mtree List")
           IN  /\ rows[1].Retention_Lock = "enabled"
               /\ Len(BlocksFor(content[t], "/data/col1/b")) = 1
               /\ OptionValues(BlocksFor(content[t], "/data/col1/b")[1],
                               "Retention-lock") = {}
               /\ rows[2].Retention_Lock = "disabled"
               /\ BlocksFor(content[t], "/data/col1/c") = <<>>
               /\ rows[3].Retention_Lock = "N/A"

\* The values of the lines of a replication context that start with a label.
CtxValues(ctx, label) ==
    LET Labelled(l) == StartsWith(Strip(l), label)
    IN  {AfterColon(Strip(l)) :
            l \in Range(SelectSeq(SplitLines(Strip(ctx)), Labelled))}

\* The one value of a set of at most one value, or the default.
OneOr(values, default) ==
    IF values = {} THEN default ELSE CHOOSE v \in values : TRUE

\* The volume path a context is entered under: '/data/col1/' followed by the
\* text after the last '/data/col1/' of its destination; "" when it has no
\* destination with '/data/col1/'.
CtxKey(ctx) ==
    LET dests == {d \in CtxValues(ctx, "Destination:") : Contains(d, "/data/col1/")}
        dest  == OneOr(dests, "")
        hits  == {i \in 1..Len(dest) : MatchLit(dest, i, "/data/col1/")}
    IN  IF dests = {} THEN ""
        ELSE "/data/col1/" \o SubSeq(dest, SetMax(hits) + 11, Len(dest))

\* The part of the connection host before its first '.'.
CtxHost(ctx) ==
    LET host == OneOr(CtxValues(ctx, "Connection Host:"), "N/A")
        dots == {i \in 1..Len(host) : Ch(host, i) = "."}
    IN  IF dots = {} THEN host ELSE SubSeq(host, 1, SetMin(dots) - 1)

\* What a context gives to the row it is linked to.
CtxFields(ctx) ==
    [Mode |-> OneOr(CtxValues(ctx, "Mode:"), "N/A"),
     Connection_Host |-> CtxHost(ctx),
     Enabled |-> OneOr(CtxValues(ctx, "Enabled:"), "N/A")]

\* The contexts of a text entered under a volume path, in text order.
ContextsFor(text, volume) ==
    LET IsFor(ctx) == CtxKey(ctx) = volume
    IN  SelectSeq(CtxSections(text, 1), IsFor)

\* C27: a replication context is entered in the lookup table only when it has
\* a 'Destination:' line with '/data/col1/', under '/data/col1/' followed by
\* the text after the last '/data/col1/' of the destination, with the part
\* of its connection host before the first '.'; a context without such a
\* destination is entered nowhere, so a volume-list row carries the values
\* of a context entered under its name or 'N/A' three times.
C27_ContextEnteredByDestination ==
    \A t \in Callers :
        TablesReturned(t) =>
            \A i \in DOMAIN RowsOf(rec[t], "Mtree List") :
                LET row  == RowsOf(rec[t], "Mtree List")[i]
                    mine == ContextsFor(content[t], row.Name)
                IN  IF mine = <<>>
                    THEN ReplicationOf(row) = AllNAReplication
                    ELSE \E n \in DOMAIN mine :
                            /\ row.Replication_Mode = CtxFields(mine[n]).Mode
                            /\ row.Replication_Host
                                 = CtxFields(mine[n]).Connection_Host
                            /\ row.Replication_Enabled = CtxFields(mine[n]).Enabled

\* the context with destination mtree://h/data/col1/b/data/col1/c is linked
\* to /data/col1/c; the context with destination mtree://h3/backup/x, which
\* has a mode, a host and an enabled line, is linked to no row
C27_Witness ==
    \E t \in Callers :
        /\ TablesReturned(t)
        /\ Len(RowsOf(rec[t], "Mtree List")) = 3
        /\ \E n \in DOMAIN CtxSections(content[t], 1) :
              /\ CtxKey(CtxSections(content[t], 1)[n]) = ""
              /\ CtxFields(CtxSections(content[t], 1)[n]).Mode = "destination"
        /\ LET rows == RowsOf(rec[t], "Mtree List")
           IN  /\ ReplicationOf(rows[1]) = AllNAReplication
               /\ ReplicationOf(rows[2]) = AllNAReplication
               /\ rows[3].Replication_Host = "plain"
               /\ rows[3].Replication_Mode = "N/A"

\* The four retention fields an options block gives.
BlockFields(block) ==
    [Retention_Lock |-> IF LockEnabled(block) THEN "enabled" ELSE "disabled",
     Lock_Mode |-> OneOr(OptionValues(block, "Retention-lock mode"), "N/A"),
     Min_Retention_Period |->
        OneOr(OptionValues(block, "Retention-lock min-retention-period"), "N/A"),
     Max_Retention_Period |->
        OneOr(OptionValues(block, "Retention-lock max-retention-period"), "N/A")]

\* C28: when two retention-lock blocks, or two replication contexts, are
\* entered under the same volume path, the volume-list row of that path
\* shows the values of the one that stands last in the text and nothing of
\* the earlier one.
C28_LastBlockWins ==
    \A t \in Callers :
        TablesReturned(t) =>
            \A i \in DOMAIN RowsOf(rec[t], "Mtree List") :
                LET row      == RowsOf(rec[t], "Mtree List")[i]
                    blocks   == BlocksFor(content[t], row.Name)
                    contexts == ContextsFor(content[t], row.Name)
                IN  /\ Len(blocks) >= 2 =>
                          RetentionOf(row) = BlockFields(blocks[Len(blocks)])
                    /\ Len(contexts) >= 2 =>
                          ReplicationOf(row) = CtxFields(contexts[Len(contexts)])

\* /data/col1/a has two contexts: the first has a host and 'Enabled: yes',
\* the last has no host and 'Enabled: no'
C28_Witness ==
    \E t \in Callers :
        /\ TablesReturned(t)
        /\ Len(RowsOf(rec[t], "Mtree List")) = 3
        /\ Len(ContextsFor(content[t], "/data/col1/a")) = 2
        /\ CtxFields(ContextsFor(content[t], "/data/col1/a")[1])
             = [Mode |-> "source", Connection_Host |-> "h2", Enabled |-> "yes"]
        /\ ReplicationOf(RowsOf(rec[t], "Mtree List")[1])
             = [Mode |-> "destination", Connection_Host |-> "N/A",
                Enabled |-> "no"]

(***************************************************************************)
(* The rows of the cloud data-movement table.                              *)
(***************************************************************************)

MovementColumns == {"Mtree", "Target", "Policy", "Value"}

\* The lines of a text that can give a row: trimmed, longer than 60
\* characters and starting with '/data/col1/'.
LongLines(text) ==
    LET IsLong(l) == /\ Len(Strip(l)) > MOVEMENT_MIN_LEN
                     /\ StartsWith(Strip(l), "/data/col1/")
    IN  SelectSeq(SplitLines(text), IsLong)

\* The row is made of pieces of the line, its Mtree of the line's start.
FromLine(row, line) ==
    /\ row.Mtree = Strip(Left(Strip(line), MOVEMENT_MTREE_WIDTH))
    /\ \A col \in MovementColumns : Contains(Strip(line), row[col])

\* C29: every cloud-movement row has the four fields Mtree, Target, Policy
\* and Value, none of them empty, and an Mtree that starts with
\* '/data/col1/'; each row comes from one trimmed line of more than 60
\* characters, and the rows stand in the order of their lines.
C29_MovementRowsWellFormed ==
    \A t \in Callers :
        MovementReturned(t) =>
            LET rows == rec[t]
                long == LongLines(content[t])
            IN  /\ \A i \in DOMAIN rows :
                      /\ DOMAIN rows[i] = MovementColumns
                      /\ \A col \in MovementColumns : rows[i][col] # ""
                      /\ StartsWith(rows[i].Mtree, "/data/col1/")
                /\ \E f \in [DOMAIN rows -> DOMAIN long] :
                      /\ \A i, j \in DOMAIN rows : i < j => f[i] < f[j]
                      /\ \A i \in DOMAIN rows : FromLine(rows[i], long[f[i]])

\* two rows in the order of their lines, /data/col1/c before /data/col1/a
C29_Witness ==
    \E t \in Callers :
        /\ MovementReturned(t)
        /\ Len(rec[t]) = 2
        /\ rec[t][1] = [Mtree |-> "/data/col1/c", Target |-> "unit2",
                        Policy |-> "age-range", Value |-> "7-30 days"]
        /\ rec[t][2].Mtree = "/data/col1/a"

(***************************************************************************)
(* The order of the records process_directory returns.                     *)
(***************************************************************************)

\* The archive or mail each record of a list was made for.
SourcesOf(records) == [i \in DOMAIN records |-> records[i]["SOURCE_TAR"]]

\* C30: process_directory returns the records of the '.tar.gz' archives
\* first, the archives in sorted order, then the records of the '.eml'
\* mails in sorted order, the documents of one archive together; there are as
\* many records as documents were extracted.
C30_BatchOrder ==
    \A t \in Callers :
        BatchReturned(t) =>
            LET src == SourcesOf(results[t])
            IN  /\ Len(results[t]) = seen[t].extracted
                /\ \A i \in DOMAIN src :
                      /\ src[i] \in Range(seen[t].names)
                      /\ EndsWith(src[i], ".tar.gz") \/ EndsWith(src[i], ".eml")
                /\ \A i, j \in DOMAIN src :
                      i < j =>
                        /\ ~(EndsWith(src[i], ".eml") /\ EndsWith(src[j], ".tar.gz"))
                        /\ (EndsWith(src[i], ".eml") <=> EndsWith(src[j], ".eml"))
                              => (src[i] = src[j] \/ StrLess(src[i], src[j]))

\* os.listdir gave k.eml, b.tar.gz, m.eml, a.tar.gz and every one of them
\* gave a record
C30_Witness ==
    \E t \in Callers :
        /\ BatchReturned(t)
        /\ seen[t].names = <<"k.eml", "b.tar.gz", "m.eml", "a.tar.gz">>
        /\ SourcesOf(results[t]) = <<"a.tar.gz", "b.tar.gz", "k.eml", "m.eml">>

====
